---------------------------- MODULE Spec2Model ----------------------------
(***************************************************************************)
(* Model of the rule-based core of the 3T-FIT V4 recommendation pipeline:  *)
(*   - SuitabilityClassifier          (evaluate_v4_model.py)               *)
(*   - decode_intensity_to_workout    (evaluate_v4_model.py)               *)
(*   - _calculate_readiness_factor_v4 (data_cleaning_v4.py)                *)
(*   - _parse_workout_data            (data_cleaning_v4.py)                *)
(*   - process_exercise_data          (two_branch_model_v4.py)             *)
(*                                                                         *)
(* Real numbers are fixed-point integers.  Units used below:               *)
(*   suitability score, readiness factor, SePA adjustments : 1/1000        *)
(*   intensity_percent, rest_minutes, reported weights     : 1/100         *)
(*   predicted_1rm (input)                                 : 1/10 kg       *)
(* Python's round(x, n) is applied to a binary double; a value lying       *)
(* exactly on a decimal tie may be rounded either way depending on the     *)
(* double's representation error, so a tie is a nondeterministic choice    *)
(* between the two neighbours.  Away from ties the result is the nearest.  *)
(***************************************************************************)
EXTENDS Integers, Sequences, FiniteSets, TLC

VARIABLES
    pc,            \* which operation has completed ("start" before any)
    results,       \* classifier: one record per classified sample, in order
    call,          \* decoder: the arguments of decode_intensity_to_workout
    workout,       \* decoder: the returned prescription
    quality,       \* decoder: what _evaluate_workout_quality returned for it
    sepa,          \* readiness: the (mood, fatigue, effort) arguments
    readiness,     \* readiness: the returned readiness factor (1/1000)
    workout_data,  \* parser: the workout string of the row
    exercises,     \* parser: the list _parse_workout_data returned
    user,          \* calculator: the user_1rm and user_max_pace arguments
    totals,        \* calculator: process_exercise_data's accumulators
    coefficients,  \* calculator: the dictionary process_exercise_data returned
    model,         \* forward: the constructor arguments of V4TwoBranchModel
    forward_args,  \* forward: the six input tensors of the call
    tensors,       \* forward: the local tensors assigned so far
    req,           \* service: the request of _prepare_input_vector / recommend_v4
    ex_dict,       \* service: the exercise candidate of _prepare_input_vector
    features,      \* service: the feature dictionary _prepare_input_vector built
    vector,        \* service: the vector _prepare_input_vector returned
    MODEL_V4,      \* service: the global model
    SCALER_V4,     \* service: the global scaler
    METADATA_V4,   \* service: the global metadata
    loaded,        \* service: what each load_model_v4_artifacts call so far returned
    response,      \* service: what the last recommend_v4 call returned
    suitability_vals, \* service: the suitability the model answered per candidate
    sepa_value,    \* mapper: the value given to V4DataCleaner._map_sepa_to_numeric
    sepa_numeric,  \* mapper: the value it returned
    serving_numeric, \* mapper: what the service's _map_sepa_to_numeric returned for it
    data,          \* trainer: the rows of trainer.data
    train_dataset, \* trainer: the training V4Dataset of prepare_datasets
    val_dataset,   \* trainer: the validation V4Dataset of prepare_datasets
    test_dataset,  \* trainer: the test V4Dataset of prepare_datasets
    test_data_for_eval, \* trainer: the rows train_v4_complete.main evaluates on
    training,      \* trainer: the locals of train_model
    cleaned        \* cleaner: the columns calculate_intensity_coefficients stored

classifierVars == <<results>>
decoderVars == <<call, workout, quality>>
readinessVars == <<sepa, readiness>>
parserVars == <<workout_data, exercises>>
calculatorVars == <<user, totals, coefficients>>
forwardVars == <<model, forward_args, tensors>>
vectorVars == <<req, ex_dict, features, vector>>
serviceVars == <<MODEL_V4, SCALER_V4, METADATA_V4, loaded, response, suitability_vals>>
mapperVars == <<sepa_value, sepa_numeric, serving_numeric>>
trainerVars == <<data, train_dataset, val_dataset, test_dataset, test_data_for_eval,
                 training, cleaned>>

vars == <<pc, classifierVars, decoderVars, readinessVars, parserVars, calculatorVars,
          forwardVars, vectorVars, serviceVars, mapperVars, trainerVars>>

(***************************************************************************)
(* Bounds of the model.                                                    *)
(***************************************************************************)
\* number of samples classified in one evaluation loop
MaxBatch == 2
\* how far outside [0,1] (in 1/1000) the classified scores may lie
ScoreMargin == 50

(***************************************************************************)
(* SuitabilityClassifier                                                   *)
(***************************************************************************)
\* Mutant: the Perfect Fit threshold tested with > instead of >=.
get_score_range_strict(score) ==
    IF score > 950 THEN
        [category |-> "Perfect Fit", description |-> "Toi uu ca nhan hoa", midpoint |-> 975]
    ELSE IF score >= 850 THEN
        [category |-> "Very Good", description |-> "Rat hieu qua", midpoint |-> 900]
    ELSE IF score >= 750 THEN
        [category |-> "Good", description |-> "Hieu qua tot", midpoint |-> 800]
    ELSE IF score >= 600 THEN
        [category |-> "Moderate", description |-> "Dung nhom co nhung sai cuong do", midpoint |-> 675]
    ELSE IF score >= 400 THEN
        [category |-> "Low", description |-> "Tac dong sai hoac phu tro yeu", midpoint |-> 500]
    ELSE
        [category |-> "Ineffective", description |-> "Khong hieu qua / Khong dat muc tieu", midpoint |-> 200]

\* Mutant: the Moderate and Low rungs of the ladder in the wrong order.
get_score_range_swapped(score) ==
    IF score >= 950 THEN
        [category |-> "Perfect Fit", description |-> "Toi uu ca nhan hoa", midpoint |-> 975]
    ELSE IF score >= 850 THEN
        [category |-> "Very Good", description |-> "Rat hieu qua", midpoint |-> 900]
    ELSE IF score >= 750 THEN
        [category |-> "Good", description |-> "Hieu qua tot", midpoint |-> 800]
    ELSE IF score >= 600 THEN
        [category |-> "Low", description |-> "Tac dong sai hoac phu tro yeu", midpoint |-> 500]
    ELSE IF score >= 400 THEN
        [category |-> "Moderate", description |-> "Dung nhom co nhung sai cuong do", midpoint |-> 675]
    ELSE
        [category |-> "Ineffective", description |-> "Khong hieu qua / Khong dat muc tieu", midpoint |-> 200]

\* get_score_range(score) -> (category, description, score_range_midpoint)
get_score_range(score) ==
    IF score >= 950 THEN
        [category |-> "Perfect Fit", description |-> "Toi uu ca nhan hoa", midpoint |-> 975]
    ELSE IF score >= 850 THEN
        [category |-> "Very Good", description |-> "Rat hieu qua", midpoint |-> 900]
    ELSE IF score >= 750 THEN
        [category |-> "Good", description |-> "Hieu qua tot", midpoint |-> 800]
    ELSE IF score >= 600 THEN
        [category |-> "Moderate", description |-> "Dung nhom co nhung sai cuong do", midpoint |-> 675]
    ELSE IF score >= 400 THEN
        [category |-> "Low", description |-> "Tac dong sai hoac phu tro yeu", midpoint |-> 500]
    ELSE
        [category |-> "Ineffective", description |-> "Khong hieu qua / Khong dat muc tieu", midpoint |-> 200]

\* Mutant: the SUPPORT threshold tested with > instead of >=.
get_action_recommendation_strict(score) ==
    IF score >= 950 THEN "LOCK-IN"
    ELSE IF score >= 850 THEN "RECOMMEND"
    ELSE IF score >= 750 THEN "KEEP"
    ELSE IF score >= 600 THEN "ADJUST"
    ELSE IF score > 400 THEN "SUPPORT"
    ELSE "REMOVE"

\* get_action_recommendation(score): the action tag that opens the returned
\* string (the emoji and the Vietnamese explanation after the tag are fixed
\* per tag and left out).
get_action_recommendation(score) ==
    IF score >= 950 THEN "LOCK-IN"
    ELSE IF score >= 850 THEN "RECOMMEND"
    ELSE IF score >= 750 THEN "KEEP"
    ELSE IF score >= 600 THEN "ADJUST"
    ELSE IF score >= 400 THEN "SUPPORT"
    ELSE "REMOVE"

\* The scores fed to the classifier: a grid over [0,1] and a margin around
\* it, refined to 1/1000 next to every multiple of 0.05, and the score 0.76.
Scores ==
    { s \in (0 - ScoreMargin)..(1000 + ScoreMargin) :
        \/ s % 50 = 0
        \/ (s + 1) % 50 = 0
        \/ (s - 1) % 50 = 0
        \/ s = 760 }

\* One pass of the evaluation loop over a sample: both classifier calls on
\* the sample's predicted suitability.
ClassifySample ==
    /\ Len(results) < MaxBatch
    /\ \E score \in Scores :
        results' = Append(results,
            [score    |-> score,
             range    |-> get_score_range(score),
             action   |-> get_action_recommendation(score)])
    /\ UNCHANGED <<pc, decoderVars, readinessVars, parserVars, calculatorVars, forwardVars, vectorVars, serviceVars,
                   mapperVars, trainerVars>>

NoCall == [predicted_1rm |-> 0, goal |-> "", readiness_factor |-> 0]
NoWorkout == [goal |-> ""]
NoQuality == [raised |-> FALSE]
NoSepa == [mood |-> 0, fatigue |-> 0, effort |-> 0]
NoUser == [user_1rm |-> 0, user_max_pace |-> 0]
NoTotals == [raised |-> FALSE]
\* forward has not been called: no model, no arguments, no local assigned
NoModel == [use_attention |-> FALSE]

NoForwardArgs == [branch_a_input |-> <<>>]

\* the locals of forward, in the order of their assignment
Locals ==
    <<"branch_a_encoded", "health_profile_features", "exercise_intensity_features",
      "branch_a_attended", "intensity_concat", "output_intensity",
      "branch_b_input_with_intensity", "branch_b_encoded", "exercise_info_features",
      "health_indicators_features", "branch_b_attended", "suitability_concat",
      "output_suitable_raw", "output_suitable", "fused_features", "fused_encoded",
      "output_readiness", "output_performance">>

NoTensors == [name \in {Locals[i] : i \in 1..Len(Locals)} |-> <<>>]

\* Python's None
None == [none |-> TRUE]

\* the service has not been called
NoRequest == [top_k |-> 0]

NoExercise == [id |-> ""]

NoFeatures == [pace |-> [n |-> 0, d |-> 1]]

\* the mapper has not been called
NoSepaValue == [value |-> [kind |-> "missing"], sepa_type |-> ""]

NoResponse == [raised |-> FALSE, recommendations |-> <<>>, session_id |-> ""]

NoCoefficients == [tempo_factor |-> [n |-> 0, d |-> 1]]

\* prepare_datasets has not returned this dataset
NoDataset == [data |-> <<>>, built |-> FALSE]

\* train_model has not been called
NoTraining == [epoch |-> 0, restored |-> FALSE]

\* calculate_intensity_coefficients has not run
NoCleaned == [stored |-> FALSE]

\* Nothing has run yet.
Init ==
    /\ pc = "start"
    /\ results = <<>>
    /\ call = NoCall
    /\ workout = NoWorkout
    /\ quality = NoQuality
    /\ sepa = NoSepa
    /\ readiness = 0
    /\ workout_data = ""
    /\ exercises = <<>>
    /\ user = NoUser
    /\ totals = NoTotals
    /\ coefficients = NoCoefficients
    /\ model = NoModel
    /\ forward_args = NoForwardArgs
    /\ tensors = NoTensors
    /\ req = NoRequest
    /\ ex_dict = NoExercise
    /\ features = NoFeatures
    /\ vector = <<>>
    /\ MODEL_V4 = None
    /\ SCALER_V4 = None
    /\ METADATA_V4 = None
    /\ loaded = <<>>
    /\ response = NoResponse
    /\ suitability_vals = <<>>
    /\ sepa_value = NoSepaValue
    /\ sepa_numeric = 0
    /\ serving_numeric = 0
    /\ data = <<>>
    /\ train_dataset = NoDataset
    /\ val_dataset = NoDataset
    /\ test_dataset = NoDataset
    /\ test_data_for_eval = <<>>
    /\ training = NoTraining
    /\ cleaned = NoCleaned

NextClassifier == ClassifySample

SpecClassifier == Init /\ [][NextClassifier]_vars

(***************************************************************************)
(* Claims about the classifier.                                            *)
(***************************************************************************)
\* The six-band table of the contract, written out band by band
\* (lower bound inclusive, upper bound exclusive, 1.0 included at the top).
BandOf(s) ==
    CASE 950 <= s /\ s <= 1000 -> "Perfect Fit"
      [] 850 <= s /\ s < 950   -> "Very Good"
      [] 750 <= s /\ s < 850   -> "Good"
      [] 600 <= s /\ s < 750   -> "Moderate"
      [] 400 <= s /\ s < 600   -> "Low"
      [] 0 <= s /\ s < 400     -> "Ineffective"

\* C1: every score in [0,1] is given the category of exactly the band that
\* contains it.
C1_BandOfScore ==
    \A i \in DOMAIN results :
        (0 <= results[i].score /\ results[i].score <= 1000)
            => results[i].range.category = BandOf(results[i].score)

\* C1 witness: the boundary scores 0.95 and 0.4 have both been classified.
C1_Witness ==
    /\ Len(results) = 2
    /\ results[1].score = 950 /\ results[1].range.category = "Perfect Fit"
    /\ results[2].score = 400 /\ results[2].range.category = "Low"

ActionOfCategory ==
    [c \in {"Perfect Fit", "Very Good", "Good", "Moderate", "Low", "Ineffective"} |->
        CASE c = "Perfect Fit" -> "LOCK-IN"
          [] c = "Very Good"   -> "RECOMMEND"
          [] c = "Good"        -> "KEEP"
          [] c = "Moderate"    -> "ADJUST"
          [] c = "Low"         -> "SUPPORT"
          [] c = "Ineffective" -> "REMOVE"]

\* C2: for every score the recommended action is the fixed action of the
\* category get_score_range gives the same score.
C2_ActionMatchesCategory ==
    \A i \in DOMAIN results :
        /\ results[i].range.category \in DOMAIN ActionOfCategory
        /\ results[i].action = ActionOfCategory[results[i].range.category]

\* C2 witness: 0.76 classified Good/KEEP and 0.4 classified Low/SUPPORT.
C2_Witness ==
    /\ Len(results) = 2
    /\ results[1].score = 760 /\ results[1].range.category = "Good"
    /\ results[1].action = "KEEP"
    /\ results[2].score = 400 /\ results[2].range.category = "Low"
    /\ results[2].action = "SUPPORT"

CategoryRank ==
    [c \in {"Perfect Fit", "Very Good", "Good", "Moderate", "Low", "Ineffective"} |->
        CASE c = "Ineffective" -> 0
          [] c = "Low"         -> 1
          [] c = "Moderate"    -> 2
          [] c = "Good"        -> 3
          [] c = "Very Good"   -> 4
          [] c = "Perfect Fit" -> 5]

\* C3: on [0,1] the classifier is total (always one of the six categories)
\* and monotone (a smaller score never gets a higher-ranked category).
C3_TotalAndMonotone ==
    /\ \A i \in DOMAIN results :
        (0 <= results[i].score /\ results[i].score <= 1000)
            => results[i].range.category \in DOMAIN CategoryRank
    /\ \A i, j \in DOMAIN results :
        (/\ 0 <= results[i].score
         /\ results[i].score < results[j].score
         /\ results[j].score <= 1000)
            => CategoryRank[results[i].range.category]
                 <= CategoryRank[results[j].range.category]

\* C3 witness: two scores of the same evaluation fall in different bands,
\* the smaller one classified after the larger one.
C3_Witness ==
    /\ Len(results) = 2
    /\ results[1].score = 851 /\ results[2].score = 599
    /\ results[1].range.category = "Very Good"
    /\ results[2].range.category = "Low"

(***************************************************************************)
(* WorkoutDecoder: V4ModelEvaluator.decode_intensity_to_workout            *)
(***************************************************************************)
\* largest predicted 1RM fed to the decoder, in 1/10 kg
MaxPredicted1RM == 2000

\* WORKOUT_GOAL_MAPPING_V4.  intensity_percent and rest_minutes in 1/100,
\* target_suitability_range in 1/1000.
WORKOUT_GOAL_MAPPING_V4 ==
    [goal \in {"strength", "hypertrophy", "endurance", "general_fitness"} |->
        CASE goal = "strength" ->
                [intensity_percent |-> <<85, 95>>, rep_range |-> <<5, 15>>,
                 sets_range |-> <<1, 5>>, rest_minutes |-> <<300, 500>>,
                 description |-> "Strength Training - Heavy loads, low reps",
                 target_suitability_range |-> <<750, 1000>>]
          [] goal = "hypertrophy" ->
                [intensity_percent |-> <<70, 80>>, rep_range |-> <<8, 20>>,
                 sets_range |-> <<1, 5>>, rest_minutes |-> <<100, 200>>,
                 description |-> "Hypertrophy - Moderate loads, medium reps",
                 target_suitability_range |-> <<750, 1000>>]
          [] goal = "endurance" ->
                [intensity_percent |-> <<50, 60>>, rep_range |-> <<10, 30>>,
                 sets_range |-> <<1, 5>>, rest_minutes |-> <<50, 100>>,
                 description |-> "Endurance - Light loads, high reps",
                 target_suitability_range |-> <<600, 1000>>]
          [] goal = "general_fitness" ->
                [intensity_percent |-> <<60, 75>>, rep_range |-> <<10, 30>>,
                 sets_range |-> <<1, 5>>, rest_minutes |-> <<100, 200>>,
                 description |-> "General Fitness - Balanced approach",
                 target_suitability_range |-> <<600, 950>>]]

\* Python round(): the values round(n/d, k) can take, in units of 10^-k,
\* for the exact quotient n/d (d > 0).  See the note on ties above.
RoundChoices(n, d) ==
    LET q == n \div d
        r == n % d
    IN  IF 2 * r < d THEN {q}
        ELSE IF 2 * r > d THEN {q + 1}
        ELSE {q, q + 1}

\* Python int(): truncation toward zero of the exact quotient n/d (d > 0).
IntTrunc(n, d) ==
    IF n >= 0 THEN n \div d ELSE 0 - ((0 - n) \div d)

\* Mutant: the fallback picks the first row of the table.
resolve_goal_first_row(goal) ==
    IF goal \notin DOMAIN WORKOUT_GOAL_MAPPING_V4 THEN "strength" ELSE goal

\* "if goal not in WORKOUT_GOAL_MAPPING_V4: goal = 'general_fitness'"
resolve_goal(goal) ==
    IF goal \notin DOMAIN WORKOUT_GOAL_MAPPING_V4 THEN "general_fitness" ELSE goal

\* Mutant: the readiness factor is not applied to the 1RM.
adjust_1rm_unscaled(predicted_1rm, readiness_factor) ==
    predicted_1rm * 1000

\* adjusted_1rm = predicted_1rm * readiness_factor, in 1/10^4 kg.
adjust_1rm(predicted_1rm, readiness_factor) ==
    predicted_1rm * readiness_factor

\* Mutant: the low-readiness branch scales rep_max instead of the midpoint.
select_parameters_rep_max(rules, readiness_factor) ==
    LET rep_min == rules.rep_range[1]
        rep_max == rules.rep_range[2]
        sets_min == rules.sets_range[1]
        sets_max == rules.sets_range[2]
        rest_min == rules.rest_minutes[1]
        rest_max == rules.rest_minutes[2]
    IN  IF readiness_factor > 1100 THEN
            [reps |-> IntTrunc((rep_min + rep_max) * 8, 20),
             sets |-> sets_max, rest |-> rest_min]
        ELSE IF readiness_factor < 900 THEN
            [reps |-> IntTrunc(rep_max * 12, 10),
             sets |-> sets_min, rest |-> rest_max]
        ELSE
            [reps |-> (rep_min + rep_max) \div 2,
             sets |-> (sets_min + sets_max) \div 2,
             rest |-> (rest_min + rest_max) \div 2]

\* Mutant: the high-readiness test written >= 1.1.
select_parameters_inclusive(rules, readiness_factor) ==
    LET rep_min == rules.rep_range[1]
        rep_max == rules.rep_range[2]
        sets_min == rules.sets_range[1]
        sets_max == rules.sets_range[2]
        rest_min == rules.rest_minutes[1]
        rest_max == rules.rest_minutes[2]
    IN  IF readiness_factor >= 1100 THEN
            [reps |-> IntTrunc((rep_min + rep_max) * 8, 20),
             sets |-> sets_max, rest |-> rest_min]
        ELSE IF readiness_factor < 900 THEN
            [reps |-> IntTrunc((rep_min + rep_max) * 12, 20),
             sets |-> sets_min, rest |-> rest_max]
        ELSE
            [reps |-> (rep_min + rep_max) \div 2,
             sets |-> (sets_min + sets_max) \div 2,
             rest |-> (rest_min + rest_max) \div 2]

\* "Intelligent parameter selection based on readiness": the 3-way branch.
\*   int((rep_min + rep_max) / 2 * 0.8) is the truncation of (rep_min+rep_max)*8/20,
\*   int((rep_min + rep_max) / 2 * 1.2) the truncation of (rep_min+rep_max)*12/20;
\*   (rest_min + rest_max) / 2 is exact in 1/100 for every row of the table.
select_parameters(rules, readiness_factor) ==
    LET rep_min == rules.rep_range[1]
        rep_max == rules.rep_range[2]
        sets_min == rules.sets_range[1]
        sets_max == rules.sets_range[2]
        rest_min == rules.rest_minutes[1]
        rest_max == rules.rest_minutes[2]
    IN  IF readiness_factor > 1100 THEN
            [reps |-> IntTrunc((rep_min + rep_max) * 8, 20),
             sets |-> sets_max, rest |-> rest_min]
        ELSE IF readiness_factor < 900 THEN
            [reps |-> IntTrunc((rep_min + rep_max) * 12, 20),
             sets |-> sets_min, rest |-> rest_max]
        ELSE
            [reps |-> (rep_min + rep_max) \div 2,
             sets |-> (sets_min + sets_max) \div 2,
             rest |-> (rest_min + rest_max) \div 2]

\* decode_intensity_to_workout(predicted_1rm, goal, readiness_factor): the
\* set of dictionaries the call can return (more than one only on a
\* rounding tie).  predicted_1rm in 1/10 kg, readiness_factor in 1/1000;
\* the reported weights are in 1/100 kg.
decode_intensity_to_workout(predicted_1rm, goal, readiness_factor) ==
    LET g == resolve_goal(goal)
        rules == WORKOUT_GOAL_MAPPING_V4[g]
        adjusted_1rm == adjust_1rm(predicted_1rm, readiness_factor)
        intensity_min == rules.intensity_percent[1]
        intensity_max == rules.intensity_percent[2]
        training_weight_min == adjusted_1rm * intensity_min
        training_weight_max == adjusted_1rm * intensity_max
        sel == select_parameters(rules, readiness_factor)
    IN  { [predicted_1rm |-> predicted_1rm * 10,
           adjusted_1rm |-> a,
           readiness_factor |-> readiness_factor,
           goal |-> g,
           training_weight_kg |-> [min |-> lo, max |-> hi, recommended |-> mid],
           reps |-> [min |-> rules.rep_range[1], max |-> rules.rep_range[2],
                     recommended |-> sel.reps],
           sets |-> [min |-> rules.sets_range[1], max |-> rules.sets_range[2],
                     recommended |-> sel.sets],
           rest_minutes |-> [min |-> rules.rest_minutes[1], max |-> rules.rest_minutes[2],
                             recommended |-> sel.rest],
           description |-> rules.description,
           target_suitability_range |-> rules.target_suitability_range] :
          a \in RoundChoices(adjusted_1rm, 100),
          lo \in RoundChoices(training_weight_min, 10000),
          hi \in RoundChoices(training_weight_max, 10000),
          mid \in RoundChoices(training_weight_min + training_weight_max, 20000) }

\* The predicted 1RM values (1/10 kg), a non-negative weight.
Predicted1RMs ==
    { p \in 0..MaxPredicted1RM : p % 250 = 0 \/ p \in {5, 333, 1005, 1234} }

\* The goal strings: the four keys and strings that are no key.
Goals ==
    DOMAIN WORKOUT_GOAL_MAPPING_V4 \cup {"", "Strength", "cardio"}

\* The readiness factors (1/1000): the documented range [0.5, 1.5] in steps
\* of 0.01, and the neighbours of the two branch thresholds.
ReadinessFactors ==
    { r \in 500..1500 : r % 10 = 0 \/ r \in {899, 901, 1099, 1101} }

\* One call of decode_intensity_to_workout.
DecodeIntensityToWorkout ==
    /\ pc = "start"
    /\ \E p \in Predicted1RMs, g \in Goals, r \in ReadinessFactors :
        /\ call' = [predicted_1rm |-> p, goal |-> g, readiness_factor |-> r]
        /\ workout' \in decode_intensity_to_workout(p, g, r)
    /\ pc' = "decoded"
    /\ UNCHANGED <<quality, classifierVars, readinessVars, parserVars, calculatorVars, forwardVars, vectorVars, serviceVars,
                   mapperVars, trainerVars>>

NextDecoder == DecodeIntensityToWorkout

SpecDecoder == Init /\ [][NextDecoder]_vars

(***************************************************************************)
(* Claims about the decoder.                                               *)
(***************************************************************************)
\* C4: for each of the four goals and every readiness factor, the
\* recommended reps, sets and rest lie within the min/max of the goal's row.
C4_RecommendedWithinRanges ==
    (pc = "decoded" /\ call.goal \in DOMAIN WORKOUT_GOAL_MAPPING_V4) =>
        LET row == WORKOUT_GOAL_MAPPING_V4[call.goal]
        IN  /\ row.rep_range[1] <= workout.reps.recommended
            /\ workout.reps.recommended <= row.rep_range[2]
            /\ row.sets_range[1] <= workout.sets.recommended
            /\ workout.sets.recommended <= row.sets_range[2]
            /\ row.rest_minutes[1] <= workout.rest_minutes.recommended
            /\ workout.rest_minutes.recommended <= row.rest_minutes[2]

\* C4 witness: a low-readiness hypertrophy prescription (the branch that
\* raises the reps above the midpoint).
C4_Witness ==
    /\ pc = "decoded"
    /\ call.goal = "hypertrophy"
    /\ call.readiness_factor = 800
    /\ workout.reps.recommended = 16
    /\ workout.sets.recommended = 1
    /\ workout.rest_minutes.recommended = 200

\* C5: the 3-way branch on readiness.  k is "p percent of the midpoint of
\* (lo, hi), truncated" when k <= p/100 * (lo+hi)/2 < k + 1.
C5_IsTruncatedShareOfMidpoint(k, p, lo, hi) ==
    /\ 200 * k <= p * (lo + hi)
    /\ p * (lo + hi) < 200 * (k + 1)

C5_ThreeWayBranch ==
    (pc = "decoded") =>
        LET row == WORKOUT_GOAL_MAPPING_V4[workout.goal]
            r == call.readiness_factor
        IN  /\ (r > 1100) =>
                /\ C5_IsTruncatedShareOfMidpoint(workout.reps.recommended, 80,
                                                 row.rep_range[1], row.rep_range[2])
                /\ workout.sets.recommended = row.sets_range[2]
                /\ workout.rest_minutes.recommended = row.rest_minutes[1]
            /\ (r < 900) =>
                /\ C5_IsTruncatedShareOfMidpoint(workout.reps.recommended, 120,
                                                 row.rep_range[1], row.rep_range[2])
                /\ workout.sets.recommended = row.sets_range[1]
                /\ workout.rest_minutes.recommended = row.rest_minutes[2]
            /\ (900 <= r /\ r <= 1100) =>
                /\ 2 * workout.reps.recommended = row.rep_range[1] + row.rep_range[2]
                /\ 2 * workout.sets.recommended = row.sets_range[1] + row.sets_range[2]
                /\ 2 * workout.rest_minutes.recommended
                       = row.rest_minutes[1] + row.rest_minutes[2]

\* C5 witness: readiness exactly 1.1 takes the midpoint branch.
C5_Witness ==
    /\ pc = "decoded"
    /\ call.goal = "strength"
    /\ call.readiness_factor = 1100
    /\ workout.reps.recommended = 10
    /\ workout.sets.recommended = 3
    /\ workout.rest_minutes.recommended = 400

C6_Abs(x) == IF x >= 0 THEN x ELSE 0 - x

C7_UnknownGoalFallsBack ==
    (pc = "decoded" /\ call.goal \notin {"strength", "hypertrophy", "endurance", "general_fitness"}) =>
        /\ workout.goal = "general_fitness"
        /\ workout \in decode_intensity_to_workout(call.predicted_1rm, "general_fitness",
                                                   call.readiness_factor)
        /\ workout.reps.min = 10 /\ workout.reps.max = 30
        /\ workout.rest_minutes.min = 100 /\ workout.rest_minutes.max = 200
        /\ workout.description = "General Fitness - Balanced approach"

\* C7 witness: the unknown goal "cardio" has been decoded.
C7_Witness ==
    /\ pc = "decoded"
    /\ call.goal = "cardio"
    /\ call.predicted_1rm = 1000
    /\ workout.goal = "general_fitness"
    /\ workout.training_weight_kg.min = 6000

(***************************************************************************)
(* ReadinessEstimator: V4DataCleaner._calculate_readiness_factor_v4        *)
(***************************************************************************)
\* np.clip(x, lo, hi)
np_clip(x, lo, hi) ==
    IF x < lo THEN lo ELSE IF x > hi THEN hi ELSE x

\* Mutant: the dataset generator's readiness formula and its [0.5, 1.5]
\* clamp (create_test_data_v4.py, without its noise and health terms) in
\* place of the rule table.
_calculate_readiness_factor_v4_generator(mood, fatigue, effort) ==
    np_clip(mood * 60 + (6 - fatigue) * 80 + effort * 40, 500, 1500)

\* Mutant: the high-fatigue test written > 4.
_calculate_readiness_factor_v4_fatigue5(mood, fatigue, effort) ==
    LET base_score == 1000
        mood_adj ==
            IF mood >= 5 THEN 100
            ELSE IF mood <= 2 THEN 0 - 100
            ELSE (mood - 3) * 50
        fatigue_adj ==
            IF fatigue > 4 THEN 0 - 120
            ELSE IF fatigue <= 2 THEN 80
            ELSE (3 - fatigue) * 40
        effort_adj ==
            IF effort >= 5 THEN 0 - 30
            ELSE IF effort <= 2 THEN 50
            ELSE 0
        readiness_sum == base_score + mood_adj + fatigue_adj + effort_adj
    IN  np_clip(readiness_sum, 600, 1300)

\* _calculate_readiness_factor_v4(mood, fatigue, effort), in 1/1000.
_calculate_readiness_factor_v4(mood, fatigue, effort) ==
    LET base_score == 1000
        mood_adj ==
            IF mood >= 5 THEN 100
            ELSE IF mood <= 2 THEN 0 - 100
            ELSE (mood - 3) * 50
        fatigue_adj ==
            IF fatigue >= 4 THEN 0 - 120
            ELSE IF fatigue <= 2 THEN 80
            ELSE (3 - fatigue) * 40
        effort_adj ==
            IF effort >= 5 THEN 0 - 30
            ELSE IF effort <= 2 THEN 50
            ELSE 0
        readiness_sum == base_score + mood_adj + fatigue_adj + effort_adj
    IN  np_clip(readiness_sum, 600, 1300)

\* The SePA levels a row carries after standardisation.
SepaLevels == 1..5

\* standardize_sepa_features: the readiness factor of one row.
CalculateReadinessFactorV4 ==
    /\ pc = "start"
    /\ \E mood \in SepaLevels, fatigue \in SepaLevels, effort \in SepaLevels :
        /\ sepa' = [mood |-> mood, fatigue |-> fatigue, effort |-> effort]
        /\ readiness' = _calculate_readiness_factor_v4(mood, fatigue, effort)
    /\ pc' = "estimated"
    /\ UNCHANGED <<classifierVars, decoderVars, parserVars, calculatorVars, forwardVars, vectorVars, serviceVars,
                   mapperVars, trainerVars>>

NextReadiness == CalculateReadinessFactorV4

SpecReadiness == Init /\ [][NextReadiness]_vars

(***************************************************************************)
(* Claims about the readiness estimator.                                   *)
(***************************************************************************)
\* C8: for all mood, fatigue, effort in 1..5 the readiness factor lies in
\* the closed interval [0.6, 1.3].
C8_ReadinessInRange ==
    (pc = "estimated") => (600 <= readiness /\ readiness <= 1300)

\* C8 witness: the lowest-readiness combination (bad mood, high fatigue,
\* very high effort) has been estimated.
C8_Witness ==
    /\ pc = "estimated"
    /\ sepa = [mood |-> 1, fatigue |-> 5, effort |-> 5]
    /\ readiness = 750

C9_mood_adj(mood) ==
    IF mood >= 5 THEN 100 ELSE IF mood <= 2 THEN 0 - 100 ELSE (mood - 3) * 50

C9_fatigue_adj(fatigue) ==
    IF fatigue >= 4 THEN 0 - 120 ELSE IF fatigue <= 2 THEN 80 ELSE (3 - fatigue) * 40

C9_effort_adj(effort) ==
    IF effort >= 5 THEN 0 - 30 ELSE IF effort <= 2 THEN 50 ELSE 0

C9_clamp(x, lo, hi) ==
    IF x < lo THEN lo ELSE IF hi < x THEN hi ELSE x

\* C9: the readiness factor is clamp(1.0 + mood_adj + fatigue_adj +
\* effort_adj, 0.6, 1.3) with the three piecewise adjustments of the
\* contract; (5, 1, 3) gives 1.18.
C9_ReadinessFormula ==
    (pc = "estimated") =>
        /\ readiness = C9_clamp(1000 + C9_mood_adj(sepa.mood) + C9_fatigue_adj(sepa.fatigue)
                                     + C9_effort_adj(sepa.effort), 600, 1300)
        /\ (sepa = [mood |-> 5, fatigue |-> 1, effort |-> 3]) => readiness = 1180

\* C9 witness: the contract's example (5, 1, 3) has been estimated.
C9_Witness ==
    /\ pc = "estimated"
    /\ sepa = [mood |-> 5, fatigue |-> 1, effort |-> 3]
    /\ readiness = 1180

(***************************************************************************)
(* WorkoutStringParser: V4DataCleaner._parse_workout_data                  *)
(*                                                                         *)
(* Strings are TLA+ strings, read character by character.  Parsed numbers  *)
(* are in 1/10 (the input strings carry at most one fractional digit).     *)
(* The input alphabet is digits, '.', '+', '-', ' ', 'x', '|' and letters  *)
(* that no float literal contains; exponents, 'inf', 'nan' and '_' are     *)
(* not part of it.                                                         *)
(***************************************************************************)
\* number of '|'-separated segments of a workout string
MaxSegments == 3

char_at(s, i) == SubSeq(s, i, i)

\* s[i:j] for 1-based i and inclusive j; empty when j < i
substring(s, i, j) == IF j < i THEN "" ELSE SubSeq(s, i, j)

RECURSIVE split_from(_, _, _, _)
\* the parts of s from position start on, scanning from position i
split_from(s, sep, i, start) ==
    IF i > Len(s) THEN <<substring(s, start, Len(s))>>
    ELSE IF char_at(s, i) = sep
         THEN <<substring(s, start, i - 1)>> \o split_from(s, sep, i + 1, i + 1)
         ELSE split_from(s, sep, i + 1, start)

\* str.split(sep) for a one-character separator
py_split(s, sep) == split_from(s, sep, 1, 1)

RECURSIVE lstrip_from(_, _)
\* index of the first non-blank character at or after i (Len(s)+1 if none)
lstrip_from(s, i) ==
    IF i > Len(s) THEN i
    ELSE IF char_at(s, i) = " " THEN lstrip_from(s, i + 1) ELSE i

RECURSIVE rstrip_from(_, _)
\* index of the last non-blank character at or before j (0 if none)
rstrip_from(s, j) ==
    IF j < 1 THEN 0
    ELSE IF char_at(s, j) = " " THEN rstrip_from(s, j - 1) ELSE j

\* str.strip()
py_strip(s) == substring(s, lstrip_from(s, 1), rstrip_from(s, Len(s)))

Digits == "0123456789"

is_digit(c) == \E d \in 1..10 : char_at(Digits, d) = c

digit_value(c) == (CHOOSE d \in 1..10 : char_at(Digits, d) = c) - 1

RECURSIVE scan_number(_, _, _)
\* scan the unsigned literal t from position i; acc collects the mantissa,
\* whether a '.' was seen, and the counts of digits and fractional digits
scan_number(t, i, acc) ==
    IF i > Len(t) THEN [acc EXCEPT !.ok = acc.ok /\ acc.digits >= 1]
    ELSE LET c == char_at(t, i)
         IN  IF is_digit(c) THEN
                 scan_number(t, i + 1,
                     [acc EXCEPT !.mant = acc.mant * 10 + digit_value(c),
                                 !.digits = acc.digits + 1,
                                 !.frac = IF acc.dot THEN acc.frac + 1 ELSE acc.frac])
             ELSE IF c = "." /\ ~acc.dot THEN
                 scan_number(t, i + 1, [acc EXCEPT !.dot = TRUE])
             ELSE [acc EXCEPT !.ok = FALSE]

RECURSIVE pow10(_)
pow10(n) == IF n <= 0 THEN 1 ELSE 10 * pow10(n - 1)

\* float(s): [ok |-> FALSE] stands for ValueError; value is in 1/10
\* (exact for literals with at most one fractional digit).
py_float(s) ==
    LET t == py_strip(s)
        signed == Len(t) >= 1 /\ char_at(t, 1) \in {"+", "-"}
        negative == signed /\ char_at(t, 1) = "-"
        u == IF signed THEN substring(t, 2, Len(t)) ELSE t
        n == scan_number(u, 1, [ok |-> TRUE, mant |-> 0, dot |-> FALSE,
                                digits |-> 0, frac |-> 0])
        magnitude == IF n.frac = 0 THEN n.mant * 10
                     ELSE n.mant \div pow10(n.frac - 1)
    IN  IF ~n.ok THEN [ok |-> FALSE, value |-> 0]
        ELSE [ok |-> TRUE, value |-> IF negative THEN 0 - magnitude ELSE magnitude]

RECURSIVE parse_loop_sets_dropped(_, _, _)
\* Mutant: the third part is read only when a fourth one follows
\* (len(parts) > 3), so 'reps x weight x sets' gets sets = 1.
parse_loop_sets_dropped(exercise_sets, i, acc) ==
    IF i > Len(exercise_sets) THEN acc
    ELSE LET parts == py_split(py_strip(exercise_sets[i]), "x")
         IN  IF Len(parts) >= 2 THEN
                 LET reps == py_float(parts[1])
                     weight == py_float(parts[2])
                     sets == IF Len(parts) > 3 THEN py_float(parts[3])
                             ELSE [ok |-> TRUE, value |-> 10]
                 IN  IF ~(reps.ok /\ weight.ok /\ sets.ok) THEN acc
                     ELSE IF reps.value > 0 /\ weight.value > 0 /\ sets.value > 0 THEN
                         parse_loop_sets_dropped(exercise_sets, i + 1,
                             Append(acc, <<reps.value, weight.value, sets.value>>))
                     ELSE parse_loop_sets_dropped(exercise_sets, i + 1, acc)
             ELSE parse_loop_sets_dropped(exercise_sets, i + 1, acc)

RECURSIVE parse_loop(_, _, _)
\* the for loop of _parse_workout_data from segment i on, inside its try:
\* a ValueError raised by float() leaves the loop, and the except clause
\* keeps what was appended before it
parse_loop(exercise_sets, i, acc) ==
    IF i > Len(exercise_sets) THEN acc
    ELSE LET parts == py_split(py_strip(exercise_sets[i]), "x")
         IN  IF Len(parts) >= 2 THEN
                 LET reps == py_float(parts[1])
                     weight == py_float(parts[2])
                     sets == IF Len(parts) > 2 THEN py_float(parts[3])
                             ELSE [ok |-> TRUE, value |-> 10]
                 IN  IF ~(reps.ok /\ weight.ok /\ sets.ok) THEN acc
                     ELSE IF reps.value > 0 /\ weight.value > 0 /\ sets.value > 0 THEN
                         parse_loop(exercise_sets, i + 1,
                             Append(acc, <<reps.value, weight.value, sets.value>>))
                     ELSE parse_loop(exercise_sets, i + 1, acc)
             ELSE parse_loop(exercise_sets, i + 1, acc)

\* _parse_workout_data(workout_str) -> exercises
_parse_workout_data(workout_str) ==
    parse_loop(py_split(workout_str, "|"), 1, <<>>)

\* Segments in the documented format "reps x weight x sets", sets optional.
WellFormedSegments ==
    {"10x50x3", "8x60x2", "10x50", " 12 x 40.5 x 2 "}

\* Segments outside the format: a zero or negative field, a part that is
\* no number, an empty segment, a fourth part.
OtherSegments ==
    {"0x50x3", "10x-5x2", "ax50x3", "", "10x50x3x9"}

Segments == WellFormedSegments \cup OtherSegments

RECURSIVE join_segments(_, _)
\* sep.join(segs)
join_segments(segs, sep) ==
    IF Len(segs) = 0 THEN ""
    ELSE IF Len(segs) = 1 THEN segs[1]
    ELSE segs[1] \o sep \o join_segments(Tail(segs), sep)

\* the sequences of 1..n segments drawn from S
segment_lists(S, n) ==
    UNION { [1..k -> S] : k \in 1..n }

\* The workout strings of the rows: up to MaxSegments segments joined by
\* '|' (the single empty segment is the empty string).
WorkoutStrings ==
    { join_segments(segs, "|") : segs \in segment_lists(Segments, MaxSegments) }

\* calculate_intensity_coefficients: the parse of one row's workout string;
\* a row whose string is empty is passed over with nothing parsed.
ParseWorkoutData ==
    /\ pc = "start"
    /\ \E s \in WorkoutStrings :
        /\ workout_data' = s
        /\ exercises' = IF s = "" THEN <<>> ELSE _parse_workout_data(s)
    /\ pc' = "parsed"
    /\ UNCHANGED <<classifierVars, decoderVars, readinessVars, calculatorVars, forwardVars, vectorVars, serviceVars,
                   mapperVars, trainerVars>>

(***************************************************************************)
(* IntensityCoefficientsCalculator (two_branch_model_v4.py)                *)
(*                                                                         *)
(* reps, weight, sets, user_1rm and user_max_pace are in 1/10; the         *)
(* coefficients and the accumulators are exact fractions [n, d], d > 0,    *)
(* in lowest terms, of the real values.                                    *)
(***************************************************************************)
RECURSIVE gcd(_, _)
gcd(a, b) == IF b = 0 THEN a ELSE gcd(b, a % b)

\* the fraction n/d (d > 0) in lowest terms
Frac(n, d) ==
    LET g == gcd(IF n >= 0 THEN n ELSE 0 - n, d)
    IN  [n |-> n \div g, d |-> d \div g]

frac_add(a, b) ==
    LET g == gcd(a.d, b.d)
        l == (a.d \div g) * b.d
    IN  Frac(a.n * (l \div a.d) + b.n * (l \div b.d), l)

\* a * b for b >= 0
frac_mul(a, b) ==
    LET g1 == gcd(IF a.n >= 0 THEN a.n ELSE 0 - a.n, b.d)
        g2 == gcd(b.n, a.d)
    IN  IF a.n = 0 \/ b.n = 0 THEN [n |-> 0, d |-> 1]
        ELSE Frac((a.n \div g1) * (b.n \div g2), (a.d \div g2) * (b.d \div g1))

\* a / b for b > 0
frac_div(a, b) == frac_mul(a, [n |-> b.d, d |-> b.n])

frac_lt(a, b) == a.n * b.d < b.n * a.d

\* Mutant: the value is returned without being clipped.
np_clip_frac_none(x, lo, hi) == x

\* np.clip(x, lo, hi) on fractions
np_clip_frac(x, lo, hi) ==
    IF frac_lt(x, lo) THEN lo ELSE IF frac_lt(hi, x) THEN hi ELSE x

\* calculate_resistance_intensity: (weight * reps) / (user_1rm * 10)
calculate_resistance_intensity(weight, reps, user_1rm) ==
    IF user_1rm <= 0 \/ weight <= 0 \/ reps <= 0 THEN Frac(0, 1)
    ELSE Frac(weight * reps, user_1rm * 100)

\* calculate_cardio_intensity: distance / (time * user_max_pace)
calculate_cardio_intensity(distance, time, user_max_pace) ==
    IF user_max_pace <= 0 \/ time <= 0 \/ distance <= 0 THEN Frac(0, 1)
    ELSE Frac(distance * 10, time * user_max_pace)

\* calculate_volume_load: (weight * reps * sets) / max_volume, max_volume = 10000
calculate_volume_load(weight, reps, sets) ==
    Frac(weight * reps * sets, 10000000)

\* calculate_tempo_factor(eccentric, concentric, isometric), in seconds
calculate_tempo_factor(eccentric, concentric, isometric) ==
    LET total_time == eccentric + concentric + isometric
    IN  IF total_time <= 0 THEN Frac(1, 1)
        ELSE np_clip_frac(Frac(4, total_time), Frac(1, 2), Frac(3, 2))

\* the accumulators of process_exercise_data before its loop
ZeroTotals ==
    [total_volume |-> Frac(0, 1), total_resistance |-> Frac(0, 1),
     total_cardio |-> Frac(0, 1), total_work_time |-> Frac(0, 1),
     total_rest_time |-> Frac(0, 1), raised |-> FALSE]

\* the coefficients dictionary process_exercise_data starts from
DefaultCoefficients ==
    [resistance_intensity |-> Frac(0, 1), cardio_intensity |-> Frac(0, 1),
     volume_load |-> Frac(0, 1), rest_density |-> Frac(3, 10),
     tempo_factor |-> Frac(1, 1)]

\* the value of the one element of a singleton set; binding a bound
\* variable to an intermediate result evaluates that result once
the_value(S) == CHOOSE v \in S : TRUE

\* process_exercise_data, one exercise with its three numbers read: the
\* accumulators after `total_... += ...`
accumulate(reps, weight, sets, user_1rm, user_max_pace, t) ==
    the_value({
        [total_resistance |-> frac_add(t.total_resistance, frac_mul(resistance_int, s)),
         total_cardio |-> frac_add(t.total_cardio, frac_mul(cardio_int, s)),
         total_volume |-> frac_add(t.total_volume, volume_load),
         total_work_time |-> frac_add(t.total_work_time, work_time),
         total_rest_time |-> frac_add(t.total_rest_time, rest_time),
         raised |-> FALSE] :
        resistance_int \in {calculate_resistance_intensity(weight, reps, user_1rm)},
        cardio_int \in {calculate_cardio_intensity(weight, reps * 4, user_max_pace)},
        volume_load \in {calculate_volume_load(weight, reps, sets)},
        work_time \in {Frac(reps * sets * 4, 100)},
        rest_time \in {Frac(sets * 120, 10)},
        s \in {Frac(sets, 10)} })

\* Mutant: the loop body without `if reps <= 0 or weight <= 0 or sets <= 0:
\* continue`, so a segment with a zero or negative field is accumulated.
process_exercise_no_skip(exercise, user_1rm, user_max_pace, t) ==
    the_value({
        IF Len(parts) >= 2 THEN
            the_value({
                IF ~(reps.ok /\ weight.ok /\ sets.ok) THEN
                    [t EXCEPT !.raised = TRUE]
                ELSE
                    accumulate(reps.value, weight.value, sets.value,
                               user_1rm, user_max_pace, t) :
                reps \in {py_float(parts[1])},
                weight \in {py_float(parts[2])},
                sets \in {IF Len(parts) > 2 THEN py_float(parts[3])
                          ELSE [ok |-> TRUE, value |-> 10]} })
        ELSE t :
        parts \in {py_split(py_strip(exercise), "x")} })

\* the body of the for loop of process_exercise_data on one exercise string:
\* a ValueError raised by float() is recorded in raised
process_exercise(exercise, user_1rm, user_max_pace, t) ==
    the_value({
        IF Len(parts) >= 2 THEN
            the_value({
                IF ~(reps.ok /\ weight.ok /\ sets.ok) THEN
                    [t EXCEPT !.raised = TRUE]
                ELSE IF reps.value <= 0 \/ weight.value <= 0 \/ sets.value <= 0 THEN
                    t
                ELSE
                    accumulate(reps.value, weight.value, sets.value,
                               user_1rm, user_max_pace, t) :
                reps \in {py_float(parts[1])},
                weight \in {py_float(parts[2])},
                sets \in {IF Len(parts) > 2 THEN py_float(parts[3])
                          ELSE [ok |-> TRUE, value |-> 10]} })
        ELSE t :
        parts \in {py_split(py_strip(exercise), "x")} })

RECURSIVE process_loop(_, _, _, _, _)
\* the for loop of process_exercise_data from segment i on, inside its try:
\* a ValueError leaves the loop
process_loop(segs, i, user_1rm, user_max_pace, t) ==
    IF i > Len(segs) THEN t
    ELSE the_value({
             IF next.raised THEN next
             ELSE process_loop(segs, i + 1, user_1rm, user_max_pace, next) :
             next \in {process_exercise(segs[i], user_1rm, user_max_pace, t)} })

\* process_exercise_data after its loop: the averages over the n segments,
\* clipped; the defaults after a ValueError or without work time
average_coefficients(t, n) ==
    IF t.raised THEN DefaultCoefficients
    ELSE IF n > 0 /\ t.total_work_time.n > 0 THEN
        the_value({
            [resistance_intensity |->
                 np_clip_frac(resistance, Frac(0, 1), Frac(2, 1)),
             cardio_intensity |->
                 np_clip_frac(cardio, Frac(0, 1), Frac(3, 2)),
             volume_load |->
                 np_clip_frac(volume, Frac(0, 1), Frac(1, 1)),
             rest_density |->
                 np_clip_frac(rest_density, Frac(0, 1), Frac(1, 1)),
             tempo_factor |-> calculate_tempo_factor(2, 1, 0)] :
            resistance \in {frac_div(t.total_resistance, Frac(n, 1))},
            cardio \in {frac_div(t.total_cardio, Frac(n, 1))},
            volume \in {frac_div(t.total_volume, Frac(10000, 1))},
            rest_density \in
                {frac_div(t.total_rest_time,
                          the_value({frac_add(t.total_work_time, t.total_rest_time)}))} })
    ELSE DefaultCoefficients

\* process_exercise_data(workout_data_str, user_1rm, user_max_pace): the
\* returned coefficients, and the accumulators as the function left them
process_exercise_data(workout_data_str, user_1rm, user_max_pace) ==
    IF workout_data_str = "" THEN
        [totals |-> ZeroTotals, coefficients |-> DefaultCoefficients]
    ELSE
        the_value({
            the_value({
                [totals |-> t, coefficients |-> average_coefficients(t, Len(segs))] :
                t \in {process_loop(segs, 1, user_1rm, user_max_pace, ZeroTotals)} }) :
            segs \in {py_split(workout_data_str, "|")} })

\* user_1rm values (1/10 kg); 0 takes calculate_resistance_intensity's guard
User1RMs == {0, 250, 1000}

\* user_max_pace values (1/10); 10 is the default argument 1.0
UserMaxPaces == {0, 10}

\* _calculate_exercise_intensity: the call of process_exercise_data on the
\* workout string of a cleaned row.
ProcessExerciseData ==
    /\ pc = "parsed"
    /\ \E u \in User1RMs, p \in UserMaxPaces :
        /\ user' = [user_1rm |-> u, user_max_pace |-> p]
        /\ LET returned == process_exercise_data(workout_data, u, p)
           IN  /\ totals' = returned.totals
               /\ coefficients' = returned.coefficients
    /\ pc' = "processed"
    /\ UNCHANGED <<classifierVars, decoderVars, readinessVars, parserVars, forwardVars, vectorVars, serviceVars,
                   mapperVars, trainerVars>>

NextParser ==
    \/ ParseWorkoutData
    \/ ProcessExerciseData

SpecParser == Init /\ [][NextParser]_vars

(***************************************************************************)
(* Claims about the parser.                                                *)
(***************************************************************************)
\* The (reps, weight, sets) each well-formed segment stands for, in 1/10.
C10_RecordOf ==
    [seg \in WellFormedSegments |->
        CASE seg = "10x50x3"         -> <<100, 500, 30>>
          [] seg = "8x60x2"          -> <<80, 600, 20>>
          [] seg = "10x50"           -> <<100, 500, 10>>
          [] seg = " 12 x 40.5 x 2 " -> <<120, 405, 20>>]

\* reps * sets * 4 seconds of work, sets * 120 seconds of rest and
\* weight * reps * sets / 10000 of volume per record (fields in 1/10)
C10_WorkTime(rec) == Frac(rec[1] * rec[3] * 4, 100)
C10_RestTime(rec) == Frac(rec[3] * 120, 10)
C10_Volume(rec) == Frac(rec[1] * rec[2] * rec[3], 10000000)

RECURSIVE C10_SumOver(_, _)
\* the work time, rest time and volume summed over records[i..]
C10_SumOver(records, i) ==
    IF i > Len(records) THEN
        [work_time |-> Frac(0, 1), rest_time |-> Frac(0, 1), volume |-> Frac(0, 1)]
    ELSE
        LET rest == C10_SumOver(records, i + 1)
        IN  [work_time |-> frac_add(C10_WorkTime(records[i]), rest.work_time),
             rest_time |-> frac_add(C10_RestTime(records[i]), rest.rest_time),
             volume |-> frac_add(C10_Volume(records[i]), rest.volume)]

\* every well-formed workout string of the model with the records its
\* segments stand for
C10_Cases ==
    { [str |-> join_segments(segs, "|"),
       records |-> [i \in 1..Len(segs) |-> C10_RecordOf[segs[i]]]] :
      segs \in segment_lists(WellFormedSegments, MaxSegments) }

\* C10: a well-formed workout string parses to exactly one record per
\* segment, in segment order, with sets = 1 when the third part is omitted:
\* _parse_workout_data returns exactly these records, and the loop of
\* process_exercise_data accumulates exactly one contribution per record.
C10_OneRecordPerSegment ==
    \A c \in C10_Cases :
        (workout_data = c.str) =>
            /\ (pc \in {"parsed", "processed"}) => exercises = c.records
            /\ (pc = "processed") =>
                /\ ~totals.raised
                /\ totals.total_work_time = C10_SumOver(c.records, 1).work_time
                /\ totals.total_rest_time = C10_SumOver(c.records, 1).rest_time
                /\ totals.total_volume = C10_SumOver(c.records, 1).volume

\* C10 witness: '10x50x3|8x60x2' has been parsed to (10,50,3), (8,60,2)
\* and processed: 184 s of work (10*3*4 + 8*2*4), 600 s of rest (5 sets).
C10_Witness ==
    /\ pc = "processed"
    /\ workout_data = "10x50x3|8x60x2"
    /\ exercises = << <<100, 500, 30>>, <<80, 600, 20>> >>
    /\ user.user_1rm = 1000
    /\ totals.total_work_time = Frac(184, 1)
    /\ totals.total_rest_time = Frac(600, 1)

\* Segments the parser must drop: a zero field, a negative field, a part
\* that is no number.
C11_InvalidSegments == {"0x50x3", "10x-5x2", "ax50x3"}

RECURSIVE C11_ValidRecords(_, _)
\* the records of the well-formed segments among segs[i..], in order
C11_ValidRecords(segs, i) ==
    IF i > Len(segs) THEN <<>>
    ELSE IF segs[i] \in WellFormedSegments
         THEN <<C10_RecordOf[segs[i]]>> \o C11_ValidRecords(segs, i + 1)
         ELSE C11_ValidRecords(segs, i + 1)

\* every workout string made of well-formed and invalid segments, with the
\* records of its well-formed segments
C11_Cases ==
    { [str |-> join_segments(segs, "|"), records |-> C11_ValidRecords(segs, 1)] :
      segs \in segment_lists(WellFormedSegments \cup C11_InvalidSegments, MaxSegments) }

\* C11: in a workout string that mixes valid and invalid segments every
\* invalid segment is dropped on its own: _parse_workout_data returns exactly
\* the records of the valid segments, whether they come before or after an
\* invalid one, process_exercise_data accumulates exactly those records, and
\* a string of invalid segments only gives the empty sequence.
C11_InvalidDroppedIndividually ==
    \A c \in C11_Cases :
        (workout_data = c.str) =>
            /\ (pc \in {"parsed", "processed"}) => exercises = c.records
            /\ (pc = "processed") =>
                /\ ~totals.raised
                /\ totals.total_work_time = C10_SumOver(c.records, 1).work_time
                /\ totals.total_rest_time = C10_SumOver(c.records, 1).rest_time
                /\ totals.total_volume = C10_SumOver(c.records, 1).volume

\* the workout strings without a valid record: the empty string and the
\* strings whose segments are all invalid or empty
C12_NoRecordStrings ==
    {""} \cup { join_segments(segs, "|") :
                segs \in segment_lists(C11_InvalidSegments \cup {""}, MaxSegments) }

\* C12: process_exercise_data returns resistance_intensity = 0.0,
\* cardio_intensity = 0.0, volume_load = 0.0, rest_density = 0.3 and
\* tempo_factor = 1.0 whenever the workout string is empty or has no valid
\* segment, for every user_1rm and user_max_pace.
C12_DefaultsWithoutRecords ==
    (pc = "processed" /\ workout_data \in C12_NoRecordStrings) =>
        coefficients = [resistance_intensity |-> [n |-> 0, d |-> 1],
                        cardio_intensity |-> [n |-> 0, d |-> 1],
                        volume_load |-> [n |-> 0, d |-> 1],
                        rest_density |-> [n |-> 3, d |-> 10],
                        tempo_factor |-> [n |-> 1, d |-> 1]]

\* C12 witness: '0x50x3|10x-5x2' processed for a 100 kg user, rest density
\* at its default 0.3.
C12_Witness ==
    /\ pc = "processed"
    /\ workout_data = "0x50x3|10x-5x2"
    /\ user = [user_1rm |-> 1000, user_max_pace |-> 10]
    /\ totals.total_work_time = [n |-> 0, d |-> 1]
    /\ coefficients.rest_density = [n |-> 3, d |-> 10]

\* lo_n/lo_d <= x <= hi_n/hi_d for a fraction x with x.d > 0
C13_Within(x, lo_n, lo_d, hi_n, hi_d) ==
    /\ x.d > 0
    /\ lo_n * x.d <= x.n * lo_d
    /\ x.n * hi_d <= hi_n * x.d

C14_Clamp(x, lo, hi) ==
    IF x.n * lo.d < lo.n * x.d THEN lo
    ELSE IF hi.n * x.d < x.n * hi.d THEN hi
    ELSE x

RECURSIVE C14_ResistanceSum(_, _, _)
\* the sum over records[i..] of (weight * reps) / (user_1rm * 10) * sets,
\* the fields and user_1rm in 1/10
C14_ResistanceSum(records, i, user_1rm) ==
    IF i > Len(records) THEN Frac(0, 1)
    ELSE frac_add(Frac(records[i][2] * records[i][1] * records[i][3],
                       user_1rm * 1000),
                  C14_ResistanceSum(records, i + 1, user_1rm))

\* every workout string made of well-formed segments and of segments with
\* a field <= 0, with the records of its well-formed segments
C14_Cases ==
    { [str |-> join_segments(segs, "|"), records |-> C11_ValidRecords(segs, 1)] :
      segs \in segment_lists(WellFormedSegments \cup {"0x50x3", "10x-5x2"},
                             MaxSegments) }

\* C14: resistance_intensity is the sum over the valid records of
\* (weight * reps) / (user_1rm * 10) * sets, divided by the number of valid
\* records (not of '|'-separated segments), clamped to [0, 2]; (10, 50, 3)
\* alone with user_1rm = 100 gives 1.5.
C14_ResistanceOverValidRecords ==
    \A c \in C14_Cases :
        (pc = "processed" /\ workout_data = c.str /\ user.user_1rm > 0
         /\ Len(c.records) > 0) =>
            coefficients.resistance_intensity =
                C14_Clamp(frac_div(C14_ResistanceSum(c.records, 1, user.user_1rm),
                                   Frac(Len(c.records), 1)),
                          Frac(0, 1), Frac(2, 1))

\* C15: volume_load is the sum over the valid records of
\* weight * reps * sets, divided by 10000 once, clamped to [0, 1].
C15_VolumeNormalisedOnce ==
    \A c \in C10_Cases :
        (pc = "processed" /\ workout_data = c.str) =>
            coefficients.volume_load =
                C14_Clamp(C10_SumOver(c.records, 1).volume, Frac(0, 1), Frac(1, 1))

(***************************************************************************)
(* V4TwoBranchModel.forward (two_branch_model_v4.py)                       *)
(*                                                                         *)
(* A tensor is one row of a batch, kept as a sequence of blocks            *)
(* [src, width]: src says how the block's entries were computed (an input  *)
(* of the call, or a layer or operation applied to a tensor) and width is  *)
(* the number of entries.  torch.cat joins the blocks; a layer checks the  *)
(* width of its input as nn.Linear does.  A local that is not assigned yet *)
(* is the empty sequence.  Each statement of forward is one step.          *)
(***************************************************************************)
RECURSIVE Width(_)
\* x.shape[1]
Width(x) == IF x = <<>> THEN 0 ELSE Head(x).width + Width(Tail(x))

\* the RuntimeError of a layer applied to a tensor of the wrong width
ShapeError == <<[src |-> [error |-> "shape"], width |-> 0]>>

\* an nn.Sequential whose first nn.Linear takes in_features and whose last
\* layer gives out_features
Sequential(name, in_features, out_features, x) ==
    IF x = ShapeError \/ Width(x) # in_features THEN ShapeError
    ELSE <<[src |-> [layer |-> name, x |-> x], width |-> out_features]>>

RECURSIVE torch_cat(_)
\* torch.cat(list, dim=1)
torch_cat(list) ==
    IF list = <<>> THEN <<>>
    ELSE IF Head(list) = ShapeError \/ torch_cat(Tail(list)) = ShapeError THEN ShapeError
    ELSE Head(list) \o torch_cat(Tail(list))

\* a * w for attention weights w of shape (batch, 1)
attend(a, w) ==
    IF a = ShapeError \/ w = ShapeError \/ Width(w) # 1 THEN ShapeError
    ELSE <<[src |-> [op |-> "mul", a |-> a, w |-> w], width |-> Width(a)]>>

\* torch.sigmoid(x)
torch_sigmoid(x) ==
    IF x = ShapeError THEN ShapeError
    ELSE <<[src |-> [op |-> "sigmoid", x |-> x], width |-> Width(x)]>>

\* an argument of forward with the given width; value tells rows apart
input_tensor(name, width, value) ==
    <<[src |-> [input |-> name, value |-> value], width |-> width]>>

\* the layers of V4TwoBranchModel.__init__, by their first and last widths
branch_a_encoder(x) ==
    Sequential("branch_a_encoder", model.branch_a_input_dim, model.shared_dim, x)

health_profile_processor(x) == Sequential("health_profile_processor", 6, 16, x)

exercise_intensity_processor(x) == Sequential("exercise_intensity_processor", 5, 16, x)

branch_a_attention(x) == Sequential("branch_a_attention", model.shared_dim, 1, x)

branch_a_output(x) == Sequential("branch_a_output", model.shared_dim + 16 + 16, 1, x)

branch_b_encoder(x) ==
    Sequential("branch_b_encoder", model.branch_b_input_dim + 1, model.shared_dim, x)

exercise_info_processor(x) == Sequential("exercise_info_processor", 12, 16, x)

health_indicators_processor(x) == Sequential("health_indicators_processor", 8, 16, x)

branch_b_attention(x) == Sequential("branch_b_attention", model.shared_dim, 1, x)

branch_b_output(x) ==
    Sequential("branch_b_output", model.shared_dim + 16 + 16 + 1, 1, x)

feature_fusion(x) == Sequential("feature_fusion", model.shared_dim * 2, model.shared_dim, x)

readiness_head(x) == Sequential("readiness_head", model.shared_dim, 1, x)

performance_head(x) == Sequential("performance_head", model.shared_dim, 1, x)

\* Mutant: the encoder input is padded with a zero column instead of the
\* intensity Branch A produced.
cat_branch_b_input_zero_padded(branch_b_input, output_intensity) ==
    torch_cat(<<branch_b_input, input_tensor("zeros", 1, 0)>>)

\* torch.cat([branch_b_input, output_intensity], dim=1)
cat_branch_b_input(branch_b_input, output_intensity) ==
    torch_cat(<<branch_b_input, output_intensity>>)

\* widths of the rows of the datasets: _extract_branch_a_features gives
\* 5 + 6 + 4 entries, _extract_branch_b_features 7 + 4 + 3 + 5
BranchAFeatures == 15

BranchBFeatures == 19

\* values that tell the rows of a batch apart
RowValues == {0, 1}

\* the models built: by two_branch_model_v4.main, which passes
\* len(train_dataset.branch_b_features[0]) + 1 as branch_b_input_dim, by
\* train_v4_complete.main, which passes sample_branch_b.shape[0], and by a
\* direct V4TwoBranchModel(...) with the widths of the rows and the defaults
ModelsBuilt ==
    {[entry |-> "two_branch_model_v4.main",
      branch_a_input_dim |-> BranchAFeatures, branch_b_input_dim |-> BranchBFeatures + 1,
      shared_dim |-> 128, hidden_dims |-> <<256, 128, 64>>, use_attention |-> TRUE],
     [entry |-> "train_v4_complete.main",
      branch_a_input_dim |-> BranchAFeatures, branch_b_input_dim |-> BranchBFeatures,
      shared_dim |-> 256, hidden_dims |-> <<512, 256, 128>>, use_attention |-> TRUE]}
    \cup
    {[entry |-> "V4TwoBranchModel",
      branch_a_input_dim |-> BranchAFeatures, branch_b_input_dim |-> BranchBFeatures,
      shared_dim |-> 128, hidden_dims |-> <<256, 128, 64>>, use_attention |-> attention] :
        attention \in BOOLEAN}

\* model = V4TwoBranchModel(branch_a_input_dim, branch_b_input_dim, ...) and
\* the call model(branch_a_input, ..., health_indicators) on a row
CallForward ==
    /\ pc = "start"
    /\ \E built \in ModelsBuilt : model' = built
    /\ \E a \in RowValues, b \in RowValues, h \in RowValues, i \in RowValues :
        forward_args' =
            [branch_a_input |-> input_tensor("branch_a_input", BranchAFeatures, a),
             branch_b_input |-> input_tensor("branch_b_input", BranchBFeatures, b),
             health_profile |-> input_tensor("health_profile", 6, h),
             exercise_intensity |-> input_tensor("exercise_intensity", 5, i),
             exercise_info |-> input_tensor("exercise_info", 12, a),
             health_indicators |-> input_tensor("health_indicators", 8, h)]
    /\ tensors' = NoTensors
    /\ pc' = "forward"
    /\ UNCHANGED <<classifierVars, decoderVars, readinessVars, parserVars, calculatorVars,
                   vectorVars, serviceVars, mapperVars, trainerVars>>

\* the statement `name = value` reached at `at`: a RuntimeError raised by
\* a layer leaves forward
Assign(at, name, value) ==
    /\ pc = at
    /\ IF value = ShapeError
       THEN pc' = "raised" /\ UNCHANGED tensors
       ELSE pc' = name /\ tensors' = [tensors EXCEPT ![name] = value]
    /\ UNCHANGED <<classifierVars, decoderVars, readinessVars, parserVars, calculatorVars,
                   model, forward_args, vectorVars, serviceVars, mapperVars, trainerVars>>

EncodeBranchA ==
    Assign("forward", "branch_a_encoded", branch_a_encoder(forward_args.branch_a_input))

ProcessHealthProfile ==
    Assign("branch_a_encoded", "health_profile_features",
           health_profile_processor(forward_args.health_profile))

ProcessExerciseIntensity ==
    Assign("health_profile_features", "exercise_intensity_features",
           exercise_intensity_processor(forward_args.exercise_intensity))

AttendBranchA ==
    Assign("exercise_intensity_features", "branch_a_attended",
           IF model.use_attention
           THEN attend(tensors.branch_a_encoded, branch_a_attention(tensors.branch_a_encoded))
           ELSE tensors.branch_a_encoded)

ConcatIntensity ==
    Assign("branch_a_attended", "intensity_concat",
           torch_cat(<<tensors.branch_a_attended, tensors.health_profile_features,
                       tensors.exercise_intensity_features>>))

BranchAOutput ==
    Assign("intensity_concat", "output_intensity", branch_a_output(tensors.intensity_concat))

ConcatBranchBInput ==
    Assign("output_intensity", "branch_b_input_with_intensity",
           cat_branch_b_input(forward_args.branch_b_input, tensors.output_intensity))

EncodeBranchB ==
    Assign("branch_b_input_with_intensity", "branch_b_encoded",
           branch_b_encoder(tensors.branch_b_input_with_intensity))

ProcessExerciseInfo ==
    Assign("branch_b_encoded", "exercise_info_features",
           exercise_info_processor(forward_args.exercise_info))

ProcessHealthIndicators ==
    Assign("exercise_info_features", "health_indicators_features",
           health_indicators_processor(forward_args.health_indicators))

AttendBranchB ==
    Assign("health_indicators_features", "branch_b_attended",
           IF model.use_attention
           THEN attend(tensors.branch_b_encoded, branch_b_attention(tensors.branch_b_encoded))
           ELSE tensors.branch_b_encoded)

ConcatSuitability ==
    Assign("branch_b_attended", "suitability_concat",
           torch_cat(<<tensors.branch_b_attended, tensors.exercise_info_features,
                       tensors.health_indicators_features, tensors.output_intensity>>))

BranchBOutput ==
    Assign("suitability_concat", "output_suitable_raw",
           branch_b_output(tensors.suitability_concat))

Sigmoid ==
    Assign("output_suitable_raw", "output_suitable",
           torch_sigmoid(tensors.output_suitable_raw))

ConcatFused ==
    Assign("output_suitable", "fused_features",
           torch_cat(<<tensors.branch_a_attended, tensors.branch_b_attended>>))

FuseFeatures ==
    Assign("fused_features", "fused_encoded", feature_fusion(tensors.fused_features))

ReadinessHead ==
    Assign("fused_encoded", "output_readiness", readiness_head(tensors.fused_encoded))

PerformanceHead ==
    Assign("output_readiness", "output_performance", performance_head(tensors.fused_encoded))

\* return {...}
ReturnForward ==
    /\ pc = "output_performance"
    /\ pc' = "returned"
    /\ UNCHANGED <<classifierVars, decoderVars, readinessVars, parserVars, calculatorVars,
                   forwardVars, vectorVars, serviceVars,
                   mapperVars, trainerVars>>

NextForward ==
    \/ CallForward
    \/ EncodeBranchA
    \/ ProcessHealthProfile
    \/ ProcessExerciseIntensity
    \/ AttendBranchA
    \/ ConcatIntensity
    \/ BranchAOutput
    \/ ConcatBranchBInput
    \/ EncodeBranchB
    \/ ProcessExerciseInfo
    \/ ProcessHealthIndicators
    \/ AttendBranchB
    \/ ConcatSuitability
    \/ BranchBOutput
    \/ Sigmoid
    \/ ConcatFused
    \/ FuseFeatures
    \/ ReadinessHead
    \/ PerformanceHead
    \/ ReturnForward

SpecForward == Init /\ [][NextForward]_vars

\* the locals forward assigns in its second stage
BranchBLocals ==
    {"branch_b_input_with_intensity", "branch_b_encoded", "exercise_info_features",
     "health_indicators_features", "branch_b_attended", "suitability_concat",
     "output_suitable_raw", "output_suitable"}

\* C16: forward is two-stage. No local of Branch B is assigned before Branch
\* A's output_intensity exists, output_intensity is the one column produced
\* by branch_a_output, and the input of the Branch B encoder and the input
\* of the Branch B output head both end with that same output_intensity.
C16_TwoStageForward ==
    /\ \A name \in BranchBLocals :
        tensors[name] # <<>> => tensors.output_intensity # <<>>
    /\ tensors.output_intensity # <<>> =>
        /\ Len(tensors.output_intensity) = 1
        /\ Width(tensors.output_intensity) = 1
        /\ tensors.output_intensity[1].src.layer = "branch_a_output"
    /\ tensors.branch_b_input_with_intensity # <<>> =>
        tensors.branch_b_input_with_intensity =
            forward_args.branch_b_input \o tensors.output_intensity
    /\ tensors.branch_b_encoded # <<>> =>
        tensors.branch_b_encoded[1].src.x =
            forward_args.branch_b_input \o tensors.output_intensity
    /\ tensors.suitability_concat # <<>> =>
        SubSeq(tensors.suitability_concat, Len(tensors.suitability_concat),
               Len(tensors.suitability_concat)) = tensors.output_intensity
    /\ tensors.output_suitable_raw # <<>> =>
        /\ tensors.output_suitable_raw[1].src.x = tensors.suitability_concat
        /\ SubSeq(tensors.output_suitable_raw[1].src.x,
                  Len(tensors.output_suitable_raw[1].src.x),
                  Len(tensors.output_suitable_raw[1].src.x)) = tensors.output_intensity

\* C16 witness: a forward pass with attention returned after both heads of
\* Branch B consumed the intensity of Branch A.
C16_Witness ==
    /\ pc = "returned"
    /\ model.use_attention
    /\ tensors.output_suitable # <<>>
    /\ tensors.branch_b_encoded[1].src.x[2] = tensors.output_intensity[1]
    /\ tensors.output_suitable_raw[1].src.x[4] = tensors.output_intensity[1]

\* the training entry points
C29_EntryPoints == {"two_branch_model_v4.main", "train_v4_complete.main"}

\* C29: in every training entry point the model is built with the widths of
\* the data: the tensor fed to branch_b_encoder (Branch B feature count + 1)
\* has the encoder's declared input width (branch_b_input_dim + 1), and the
\* Branch A feature count is branch_a_input_dim.
C29_WidthsMatchData ==
    (pc # "start" /\ model.entry \in C29_EntryPoints) =>
        /\ Width(forward_args.branch_b_input) + 1 = model.branch_b_input_dim + 1
        /\ Width(forward_args.branch_a_input) = model.branch_a_input_dim
        /\ tensors.branch_b_input_with_intensity # <<>> =>
              Width(tensors.branch_b_input_with_intensity) = model.branch_b_input_dim + 1
        /\ pc # "raised"

(***************************************************************************)
(* RecommendationService: app/services/recommendation_v4.py                *)
(*                                                                         *)
(* Numbers, ints included, are exact fractions [n, d] of the real values;  *)
(* None is the record None.                                                *)
(* An entry of a float32 array is kept as the value it was converted      *)
(* from, marked with its dtype.                                            *)
(***************************************************************************)
FEATURE_COLUMNS ==
    <<"duration_min", "avg_hr", "max_hr", "calories", "fatigue", "effort", "mood",
      "age", "height_m", "weight_kg", "bmi", "fat_percentage", "resting_heartrate",
      "experience_level", "workout_frequency", "gender", "session_duration",
      "estimated_1rm", "pace", "duration_capacity", "rest_period", "intensity_score",
      "resistance_intensity", "cardio_intensity", "volume_load", "rest_density",
      "hr_reserve", "calorie_efficiency">>

UpperCase == "ABCDEFGHIJKLMNOPQRSTUVWXYZ"

LowerCase == "abcdefghijklmnopqrstuvwxyz"

RECURSIVE str_lower(_)
\* str.lower() on ASCII strings
str_lower(s) ==
    IF s = "" THEN ""
    ELSE (IF \E k \in 1..26 : char_at(UpperCase, k) = char_at(s, 1)
          THEN char_at(LowerCase, CHOOSE k \in 1..26 : char_at(UpperCase, k) = char_at(s, 1))
          ELSE char_at(s, 1)) \o str_lower(Tail(s))

\* dict.get(key, default)
dict_get(d, key, default) == IF key \in DOMAIN d THEN d[key] ELSE default

\* the mapping of the serving _map_sepa_to_numeric
ServingMapping ==
    [x \in {"very bad", "very low", "beginner", "male"} |-> 1] @@
    [x \in {"bad", "low", "intermediate"} |-> 2] @@
    [x \in {"neutral", "medium", "advanced"} |-> 3] @@
    [x \in {"good", "high", "pro", "expert"} |-> 4] @@
    [x \in {"very good", "excellent", "very high"} |-> 5] @@
    [x \in {"female", "other"} |-> 0]

\* _map_sepa_to_numeric(value) of the service: mapping.get(str(value).lower(), 3)
map_sepa_to_numeric(v) == dict_get(ServingMapping, str_lower(v), 3)

Zero == [n |-> 0, d |-> 1]

frac_neg(a) == [n |-> 0 - a.n, d |-> a.d]

\* bool(x) of an Optional number: None and 0 are false
truthy(x) == x # None /\ x.n # 0

\* a * b and a / b (b # 0) for fractions of either sign
frac_times(a, b) == Frac(a.n * b.n, a.d * b.d)

frac_over(a, b) ==
    IF b.n < 0 THEN Frac((0 - a.n) * b.d, a.d * (0 - b.n)) ELSE Frac(a.n * b.d, a.d * b.n)

frac_sub(a, b) == frac_add(a, frac_neg(b))

\* np.float32(x): the float32 nearest to x
np_float32(x) == [dtype |-> "float32", value |-> x]

\* Mutant: the resting heart rate is stored under the name of the request
\* field, 'resting_heart_rate'.
feature_dictionary_renamed(l) ==
    [duration_min |-> l.duration, avg_hr |-> l.avg_hr, max_hr |-> l.max_hr,
     calories |-> l.calories, fatigue |-> l.fatigue, effort |-> l.effort,
     mood |-> l.mood, age |-> l.age, height_m |-> l.height, weight_kg |-> l.weight,
     bmi |-> l.bmi, fat_percentage |-> l.fat, resting_heart_rate |-> l.rhr,
     experience_level |-> l.exp_level, workout_frequency |-> l.freq,
     gender |-> l.gender, session_duration |-> l.session_duration,
     estimated_1rm |-> l.estimated_1rm, pace |-> l.pace,
     duration_capacity |-> l.duration_capacity, rest_period |-> l.rest_period,
     intensity_score |-> l.intensity_score,
     resistance_intensity |-> l.resistance_intensity,
     cardio_intensity |-> l.cardio_intensity, volume_load |-> l.volume_load,
     rest_density |-> l.rest_density, hr_reserve |-> l.hr_reserve,
     calorie_efficiency |-> l.calorie_efficiency]

\* features = {...}: the dictionary built from the locals
feature_dictionary(l) ==
    [duration_min |-> l.duration, avg_hr |-> l.avg_hr, max_hr |-> l.max_hr,
     calories |-> l.calories, fatigue |-> l.fatigue, effort |-> l.effort,
     mood |-> l.mood, age |-> l.age, height_m |-> l.height, weight_kg |-> l.weight,
     bmi |-> l.bmi, fat_percentage |-> l.fat, resting_heartrate |-> l.rhr,
     experience_level |-> l.exp_level, workout_frequency |-> l.freq,
     gender |-> l.gender, session_duration |-> l.session_duration,
     estimated_1rm |-> l.estimated_1rm, pace |-> l.pace,
     duration_capacity |-> l.duration_capacity, rest_period |-> l.rest_period,
     intensity_score |-> l.intensity_score,
     resistance_intensity |-> l.resistance_intensity,
     cardio_intensity |-> l.cardio_intensity, volume_load |-> l.volume_load,
     rest_density |-> l.rest_density, hr_reserve |-> l.hr_reserve,
     calorie_efficiency |-> l.calorie_efficiency]

\* the locals of _prepare_input_vector up to calories; met is a number
input_locals(r, exercise) ==
    LET metrics == r.health_metrics
        user_ctx == r.user_context
        state == r.current_state
        age == Frac(metrics.age, 1)
        height == frac_over(metrics.height_cm, Frac(100, 1))
        weight == metrics.weight_kg
        bmi == IF truthy(metrics.bmi) THEN metrics.bmi
               ELSE frac_over(weight, frac_times(height, height))
        fat == IF truthy(metrics.body_fat_percentage) THEN metrics.body_fat_percentage
               ELSE Frac(20, 1)
        rhr == IF truthy(metrics.resting_heart_rate) THEN metrics.resting_heart_rate
               ELSE Frac(70, 1)
        duration == IF truthy(r.goal_context.duration_preference_min)
                    THEN r.goal_context.duration_preference_min ELSE Frac(45, 1)
        met == dict_get(exercise, "met_value", Frac(5, 1))
        max_hr_age == frac_sub(Frac(208, 1), frac_times(Frac(7, 10), age))
        avg_hr == frac_add(rhr, frac_times(frac_sub(max_hr_age, rhr), Frac(6, 10)))
    IN  [age |-> age, height |-> height, weight |-> weight, bmi |-> bmi, fat |-> fat,
         rhr |-> rhr,
         gender |-> Frac(map_sepa_to_numeric(user_ctx.gender), 1),
         exp_level |-> Frac(map_sepa_to_numeric(user_ctx.experience_level), 1),
         freq |-> Frac(user_ctx.workout_frequency, 1),
         mood |-> Frac(map_sepa_to_numeric(state.mood), 1),
         fatigue |-> Frac(map_sepa_to_numeric(state.fatigue), 1),
         effort |-> Frac(3, 1),
         duration |-> duration, met |-> met,
         avg_hr |-> avg_hr, max_hr |-> max_hr_age,
         calories |-> frac_times(frac_over(frac_times(frac_times(met, Frac(35, 10)), weight),
                                           Frac(200, 1)), duration),
         session_duration |-> frac_over(duration, Frac(60, 1)),
         estimated_1rm |-> frac_times(weight, Frac(8, 10)),
         pace |-> Zero,
         duration_capacity |-> frac_times(duration, Frac(60, 1)),
         rest_period |-> Frac(60, 1),
         intensity_score |-> met]

\* the derived locals; rest_period + duration is not 0
derived_locals(l) ==
    [resistance_intensity |->
        IF frac_lt(Zero, l.estimated_1rm) THEN frac_over(l.intensity_score, l.estimated_1rm)
        ELSE Zero,
     cardio_intensity |->
        IF frac_lt(Zero, l.max_hr) THEN frac_over(l.avg_hr, l.max_hr) ELSE Zero,
     volume_load |-> frac_times(l.intensity_score, l.duration),
     rest_density |-> frac_over(l.rest_period, frac_add(l.rest_period, l.duration)),
     hr_reserve |->
        IF frac_lt(Zero, frac_sub(l.max_hr, l.rhr))
        THEN frac_over(frac_sub(l.avg_hr, l.rhr), frac_sub(l.max_hr, l.rhr))
        ELSE Zero,
     calorie_efficiency |->
        IF frac_lt(Zero, l.duration) THEN frac_over(l.calories, l.duration) ELSE Zero]

\* _prepare_input_vector raises: the TypeError of None * 3.5 (line 120) or
\* the ZeroDivisionError of rest_period / (rest_period + duration) (line 134)
input_vector_raises(r, exercise) ==
    \/ dict_get(exercise, "met_value", Frac(5, 1)) = None
    \/ r.goal_context.duration_preference_min = Frac(0 - 60, 1)

\* _prepare_input_vector(req, exercise)
prepare_input_vector(r, exercise) ==
    IF input_vector_raises(r, exercise)
    THEN [raised |-> TRUE, features |-> NoFeatures, vector |-> <<>>]
    ELSE the_value({
        [raised |-> FALSE, features |-> f,
         vector |-> [i \in 1..Len(FEATURE_COLUMNS) |->
                        np_float32(dict_get(f, FEATURE_COLUMNS[i], Zero))]] :
        f \in {feature_dictionary(l @@ derived_locals(l)) :
                  l \in {input_locals(r, exercise)}} })

\* requests that pass the validation of RecommendRequestV4; the Optional
\* numbers are fractions or None
HealthMetricsSet ==
    [age : {10, 30}, height_cm : {Frac(170, 1)}, weight_kg : {Frac(70, 1)},
     bmi : {None, Zero, Frac(22, 1)},
     body_fat_percentage : {None, Frac(15, 1)},
     resting_heart_rate : {None, Frac(60, 1), Frac(200, 1)}]

UserContextSet ==
    [gender : {"Male", "Female"}, experience_level : {"Beginner", "Pro"},
     workout_frequency : {3}]

CurrentStateSet == [mood : {"Neutral", "Very Good", "Tired"}, fatigue : {"Medium", "High"}]

DurationPreferences == {None, Zero, Frac(60, 1), Frac(0 - 60, 1)}

\* candidates as dictionaries: without met_value, with a number, with None
Candidates ==
    {[id |-> "ex1", name |-> "Barbell Squat"],
     [id |-> "ex1", name |-> "Barbell Squat", met_value |-> Frac(6, 1)],
     [id |-> "ex3", name |-> "Yoga", met_value |-> None]}

\* vector = _prepare_input_vector(req, exercise)
PrepareInputVector ==
    /\ pc = "start"
    /\ \E hm \in HealthMetricsSet, uc \in UserContextSet, cs \in CurrentStateSet,
          duration \in DurationPreferences, exercise \in Candidates :
        /\ req' = [health_metrics |-> hm, user_context |-> uc, current_state |-> cs,
                   goal_context |-> [duration_preference_min |-> duration],
                   available_exercises |-> None, top_k |-> 5]
        /\ ex_dict' = exercise
        /\ \E out \in {prepare_input_vector(req', exercise)} :
            /\ features' = out.features
            /\ vector' = out.vector
            /\ pc' = IF out.raised THEN "raised" ELSE "prepared"
    /\ UNCHANGED <<classifierVars, decoderVars, readinessVars, parserVars, calculatorVars,
                   forwardVars, serviceVars, mapperVars, trainerVars>>

NextVector == PrepareInputVector

SpecVector == Init /\ [][NextVector]_vars

MaxLoads == 2

\* what a model directory can hold.  model_metadata.json: missing (None) or
\* a document with architecture.branch_a_input_dim; feature_scaler.pkl:
\* missing or a scaler fitted on n_features_in_ columns; model_weights.pth:
\* missing, or a file that torch.load and load_state_dict accept for the
\* model built or reject with an exception
MetadataFiles == {None, [branch_a_input_dim |-> 28], [branch_a_input_dim |-> 15]}

ScalerFiles == {None, [n_features_in_ |-> 28], [n_features_in_ |-> 15]}

WeightsFiles == {None, [accepted |-> TRUE], [accepted |-> FALSE]}

ModelDirs == [metadata : MetadataFiles, scaler : ScalerFiles, weights : WeightsFiles]

\* load_model_v4_artifacts(model_dir) as the k-th call, from the globals g:
\* the globals are assigned one by one, each as soon as its file is read
load_model_v4_artifacts(g, dir, k) ==
    the_value({
        IF dir.scaler = None
        THEN [globals |-> [g EXCEPT !.METADATA_V4 = metadata], returned |-> FALSE]
        ELSE IF dir.weights = None \/ ~dir.weights.accepted
        THEN [globals |-> [g EXCEPT !.METADATA_V4 = metadata,
                                    !.SCALER_V4 = [load |-> k, n_features_in_ |->
                                                       dir.scaler.n_features_in_]],
              returned |-> FALSE]
        ELSE [globals |-> [METADATA_V4 |-> metadata,
                           SCALER_V4 |-> [load |-> k, n_features_in_ |->
                                              dir.scaler.n_features_in_],
                           MODEL_V4 |-> [load |-> k, input_dim |-> input_dim]],
              returned |-> TRUE] :
        metadata \in {IF dir.metadata = None THEN g.METADATA_V4
                      ELSE [load |-> k, branch_a_input_dim |->
                                dir.metadata.branch_a_input_dim]},
        input_dim \in {IF dir.metadata = None THEN 28
                       ELSE dir.metadata.branch_a_input_dim} })

LoadModelV4Artifacts ==
    /\ pc \in {"start", "loaded"}
    /\ Len(loaded) < MaxLoads
    /\ \E dir \in ModelDirs :
        \E out \in {load_model_v4_artifacts(
                        [MODEL_V4 |-> MODEL_V4, SCALER_V4 |-> SCALER_V4,
                         METADATA_V4 |-> METADATA_V4], dir, Len(loaded) + 1)} :
            /\ MODEL_V4' = out.globals.MODEL_V4
            /\ SCALER_V4' = out.globals.SCALER_V4
            /\ METADATA_V4' = out.globals.METADATA_V4
            /\ loaded' = Append(loaded, out.returned)
    /\ pc' = "loaded"
    /\ UNCHANGED <<classifierVars, decoderVars, readinessVars, parserVars, calculatorVars,
                   forwardVars, vectorVars, response, suitability_vals, mapperVars,
                   trainerVars>>

\* the mock candidates of recommend_v4
MockCandidates ==
    <<[id |-> "ex1", name |-> "Barbell Squat", met_value |-> Frac(6, 1)],
      [id |-> "ex2", name |-> "Running", met_value |-> Frac(8, 1)],
      [id |-> "ex3", name |-> "Yoga", met_value |-> Frac(3, 1)],
      [id |-> "ex4", name |-> "HIIT", met_value |-> Frac(10, 1)],
      [id |-> "ex5", name |-> "Bench Press", met_value |-> Frac(5, 1)]>>

\* what the model can answer for one candidate: suitability in 1/10000
\* and intensity in 1/100
ModelOutputs ==
    {[suitability |-> 3999, intensity |-> 312],
     [suitability |-> 4000, intensity |-> 450],
     [suitability |-> 4001, intensity |-> 688],
     [suitability |-> 9004, intensity |-> 751]}

\* round(score, 3) in 1/1000 and round(rpe, 1) in 1/10, for values whose
\* dropped digits are not a tie
py_round_drop_digit(x) == (x + 5) \div 10

\* an Optional list: None or the list
py_list(items) == [list |-> items]

\* req.available_exercises or [], replaced by the mock candidates when empty
candidates_of(r) ==
    IF r.available_exercises = None \/ r.available_exercises.list = <<>>
    THEN MockCandidates ELSE r.available_exercises.list

RECURSIVE kept_recommendations(_, _, _, _)
\* the loop of step 5 from candidate i on: an item for every score > 0.4
kept_recommendations(r, candidates, outputs, i) ==
    IF i > Len(candidates) THEN <<>>
    ELSE (IF outputs[i].suitability > 4000
          THEN <<[exercise_id |-> candidates[i].id,
                  exercise_name |-> candidates[i].name,
                  predicted_rpe |-> py_round_drop_digit(outputs[i].intensity),
                  suitability_score |-> py_round_drop_digit(outputs[i].suitability),
                  reason_percent |-> outputs[i].suitability \div 100,
                  suggested_params |->
                      [duration |-> r.goal_context.duration_preference_min]]>>
          ELSE <<>>) \o kept_recommendations(r, candidates, outputs, i + 1)

RECURSIVE insert_desc(_, _)
\* x placed before the first item whose score is not larger
insert_desc(x, sorted) ==
    IF sorted = <<>> \/ x.suitability_score >= Head(sorted).suitability_score
    THEN <<x>> \o sorted
    ELSE <<Head(sorted)>> \o insert_desc(x, Tail(sorted))

\* Mutant: the list is returned in the order of the candidates.
sort_by_suitability_skipped(items) == items

RECURSIVE sort_by_suitability(_)
\* list.sort(key=suitability_score, reverse=True): stable
sort_by_suitability(items) ==
    IF items = <<>> THEN <<>>
    ELSE the_value({ insert_desc(Head(items), rest) :
                     rest \in {sort_by_suitability(Tail(items))} })

\* seq[:k]
py_slice_to(seq, k) ==
    IF k >= 0 THEN SubSeq(seq, 1, IF k < Len(seq) THEN k ELSE Len(seq))
    ELSE SubSeq(seq, 1, IF Len(seq) + k > 0 THEN Len(seq) + k ELSE 0)

Raised(error) == [raised |-> TRUE, error |-> error]

\* recommend_v4(req) under the globals g; outputs are the answers of the
\* model for the candidates, accepts tells whether a model built for another
\* input width than the one of X answers at all
recommend_v4(r, g, outputs, accepts) ==
    IF g.MODEL_V4 = None THEN Raised("Model v4 is not loaded")
    ELSE the_value({
        IF \E i \in 1..Len(candidates) : input_vector_raises(r, candidates[i])
        THEN Raised("_prepare_input_vector")
        ELSE IF g.SCALER_V4.n_features_in_ # Len(FEATURE_COLUMNS)
        THEN Raised("SCALER_V4.transform")
        ELSE IF g.MODEL_V4.input_dim # Len(FEATURE_COLUMNS) /\ ~accepts
        THEN Raised("MODEL_V4")
        ELSE the_value({
            [raised |-> FALSE,
             recommendations |-> py_slice_to(sort_by_suitability(kept), r.top_k),
             session_id |-> "sess_v4_demo"] :
            kept \in {kept_recommendations(r, candidates, outputs, 1)} }) :
        candidates \in {candidates_of(r)} })

\* the requests served: one user, the candidates and top_k vary
ServedRequests ==
    [health_metrics : {[age |-> 30, height_cm |-> Frac(170, 1), weight_kg |-> Frac(70, 1),
                        bmi |-> None, body_fat_percentage |-> None,
                        resting_heart_rate |-> Frac(60, 1)]},
     user_context : {[gender |-> "Male", experience_level |-> "Beginner",
                      workout_frequency |-> 3]},
     current_state : {[mood |-> "Neutral", fatigue |-> "Medium"]},
     goal_context : {[duration_preference_min |-> Frac(60, 1)]},
     available_exercises :
         {None,
          py_list(<<[id |-> "a", name |-> "Plank", met_value |-> Frac(4, 1)],
                    [id |-> "b", name |-> "Rowing", met_value |-> Frac(7, 1)]>>)},
     top_k : {0, 1, 5}]

\* one request is served in a behaviour: recommend_v4 assigns no global, so
\* a later request meets the globals the loads before it left
RecommendV4 ==
    /\ pc \in {"start", "loaded"}
    /\ \E r \in ServedRequests, accepts \in BOOLEAN :
        \E outputs \in [1..Len(candidates_of(r)) -> ModelOutputs] :
            /\ req' = r
            /\ response' = recommend_v4(r, [MODEL_V4 |-> MODEL_V4, SCALER_V4 |-> SCALER_V4,
                                            METADATA_V4 |-> METADATA_V4], outputs, accepts)
            /\ suitability_vals' = IF response'.raised THEN <<>>
                                   ELSE [i \in DOMAIN outputs |-> outputs[i].suitability]
            /\ pc' = IF response'.raised THEN "raised" ELSE "served"
    /\ UNCHANGED <<classifierVars, decoderVars, readinessVars, parserVars, calculatorVars,
                   forwardVars, ex_dict, features, vector, MODEL_V4, SCALER_V4, METADATA_V4,
                   loaded, mapperVars, trainerVars>>

NextService ==
    \/ LoadModelV4Artifacts
    \/ RecommendV4

SpecService == Init /\ [][NextService]_vars

C19_LoadFailsOnInconsistentArtifacts ==
    /\ (pc = "loaded" /\ loaded[Len(loaded)]) =>
        /\ METADATA_V4 # None
        /\ METADATA_V4.load = Len(loaded)
        /\ METADATA_V4.branch_a_input_dim = Len(FEATURE_COLUMNS)
        /\ MODEL_V4.input_dim = Len(FEATURE_COLUMNS)
        /\ SCALER_V4.n_features_in_ = MODEL_V4.input_dim
    /\ (pc = "raised" /\ loaded # <<>> /\ response.raised /\ loaded[Len(loaded)]) =>
        response.error \notin {"SCALER_V4.transform", "MODEL_V4"}

\* the candidates of the served request
C24_Candidates == candidates_of(req)

\* candidate i is in the returned list
C24_Kept(i) ==
    \E k \in 1..Len(response.recommendations) :
        response.recommendations[k].exercise_id = C24_Candidates[i].id

C25_TopKBySuitability ==
    (pc = "served" /\ req.top_k >= 0) =>
        LET recs == response.recommendations
        IN  /\ Len(recs) <= req.top_k
            /\ \A k \in 1..(Len(recs) - 1) :
                  recs[k].suitability_score >= recs[k + 1].suitability_score
            /\ \A k, l \in 1..Len(recs) : recs[k].exercise_id = recs[l].exercise_id => k = l
            /\ \A k \in 1..Len(recs) :
                  \E i \in 1..Len(C24_Candidates) :
                      /\ recs[k].exercise_id = C24_Candidates[i].id
                      /\ recs[k].suitability_score = py_round_drop_digit(suitability_vals[i])
            /\ \A i \in 1..Len(C24_Candidates) :
                  ~C24_Kept(i) =>
                      \A k \in 1..Len(recs) :
                          py_round_drop_digit(suitability_vals[i]) <= recs[k].suitability_score

\* a request cut to one item although a second candidate passed the filter,
\* with the candidates not in the order of their scores
C25_Witness ==
    /\ pc = "served"
    /\ req.top_k = 1
    /\ Len(response.recommendations) = 1
    /\ \E i, j \in 1..Len(C24_Candidates) :
          /\ i < j
          /\ suitability_vals[i] = 4001
          /\ suitability_vals[j] = 9004
          /\ response.recommendations[1].exercise_id = C24_Candidates[j].id

(***************************************************************************)
(* SepaMapper: V4DataCleaner._map_sepa_to_numeric                          *)
(*                                                                         *)
(* A value is missing (None, NaN), a number (in 1/10) or a string.         *)
(***************************************************************************)
SEPA_MAPPINGS ==
    [mood |-> [x \in {"Very Bad"} |-> 1] @@ [x \in {"Bad"} |-> 2] @@
              [x \in {"Neutral"} |-> 3] @@ [x \in {"Good"} |-> 4] @@
              [x \in {"Very Good", "Excellent"} |-> 5],
     fatigue |-> [x \in {"Very Low"} |-> 1] @@ [x \in {"Low"} |-> 2] @@
                 [x \in {"Medium"} |-> 3] @@ [x \in {"High"} |-> 4] @@
                 [x \in {"Very High"} |-> 5]]

Missing == [kind |-> "missing"]

Number(tenths) == [kind |-> "number", tenths |-> tenths]

Str(s) == [kind |-> "str", s |-> s]

\* pd.isna(value)
pd_isna(v) == v.kind = "missing"

\* float(value): of a number the number, of a string what py_float reads
float_of(v) ==
    IF v.kind = "number" THEN [ok |-> TRUE, value |-> v.tenths] ELSE py_float(v.s)

\* int(x) for x in 1/10: truncation towards zero
py_int(tenths) == IF tenths >= 0 THEN tenths \div 10 ELSE 0 - ((0 - tenths) \div 10)

\* the two lookups of the string branch: value_str in mapping, then the
\* first key equal to it in lower case (the keys differ in lower case)
lookup(mapping, value_str, default) ==
    IF value_str \in DOMAIN mapping THEN mapping[value_str]
    ELSE IF \E key \in DOMAIN mapping : str_lower(key) = str_lower(value_str)
    THEN mapping[CHOOSE key \in DOMAIN mapping : str_lower(key) = str_lower(value_str)]
    ELSE default

\* V4DataCleaner._map_sepa_to_numeric(value, mapping, default)
map_sepa(v, mapping, default) ==
    IF pd_isna(v) THEN default
    ELSE the_value({
        IF x.ok /\ 1 <= py_int(x.value) /\ py_int(x.value) <= 5 THEN py_int(x.value)
        ELSE IF v.kind = "str" THEN lookup(mapping, py_strip(v.s), default)
        ELSE default :
        x \in {float_of(v)} })

\* the cells of a mood or fatigue column
SepaNumbers == {0 - 10, 0, 5, 9, 10, 20, 27, 30, 40, 50, 55, 59, 60, 100}

SepaStrings ==
    {"Very Bad", "very bad", "VERY BAD", " Very Bad ", "Bad", "bad", "BAD", " Bad ",
     "Neutral", "neutral", "NEUTRAL", " Neutral ", "Good", "good", "GOOD", " Good ",
     "Very Good", "very good", "VERY GOOD", " Very Good ", "Excellent", "excellent",
     "EXCELLENT", " Excellent ", "Very Low", "very low", "VERY LOW", " Very Low ",
     "Low", "low", "LOW", " Low ", "Medium", "medium", "MEDIUM", " Medium ", "High",
     "high", "HIGH", " High ", "Very High", "very high", "VERY HIGH", " Very High ",
     "Tired", "", " ", "Okay", "3", "4.0", " 5 ", "0", "6", "2.7", "5.5", "-1", "abc"}

SepaValues ==
    {Missing} \cup {Number(n) : n \in SepaNumbers} \cup {Str(s) : s \in SepaStrings}

\* data[sepa_type].apply(lambda x: self._map_sepa_to_numeric(x, mapping))
MapSepaToNumeric ==
    /\ pc = "start"
    /\ \E sepa_type \in DOMAIN SEPA_MAPPINGS, v \in SepaValues :
        /\ sepa_value' = [value |-> v, sepa_type |-> sepa_type]
        /\ sepa_numeric' = map_sepa(v, SEPA_MAPPINGS[sepa_type], 3)
    /\ pc' = "mapped"
    /\ UNCHANGED <<classifierVars, decoderVars, readinessVars, parserVars, calculatorVars,
                   forwardVars, vectorVars, serviceVars, serving_numeric, trainerVars>>

NextMapper == MapSepaToNumeric

SpecMapper == Init /\ [][NextMapper]_vars

\* the number a value stands for, in 1/10: a number, or a string float() reads
C20_IsNumeric(v) == v.kind = "number" \/ (v.kind = "str" /\ py_float(v.s).ok)

C20_Numeric(v) == IF v.kind = "number" THEN v.tenths ELSE py_float(v.s).value

\* C20: the result is an integer in 1..5; a whole number within 1-5 is
\* returned unchanged; a number below 1 or above 5 and a missing value give
\* the default 3; any other string gives the value of the key equal to it
\* without regard to case and surrounding blanks, or 3 when there is none.
C20_MapsIntoScale ==
    pc = "mapped" =>
        LET v == sepa_value.value
            mapping == SEPA_MAPPINGS[sepa_value.sepa_type]
            keys == {key \in DOMAIN mapping : str_lower(key) = str_lower(py_strip(v.s))}
        IN  /\ sepa_numeric \in 1..5
            /\ v.kind = "missing" => sepa_numeric = 3
            /\ (C20_IsNumeric(v) /\ C20_Numeric(v) \in {10, 20, 30, 40, 50}) =>
                sepa_numeric * 10 = C20_Numeric(v)
            /\ (C20_IsNumeric(v) /\ (C20_Numeric(v) < 10 \/ C20_Numeric(v) > 50)) =>
                sepa_numeric = 3
            /\ (v.kind = "str" /\ ~C20_IsNumeric(v)) =>
                /\ keys # {} => \E key \in keys : sepa_numeric = mapping[key]
                /\ keys = {} => sepa_numeric = 3

\* mood = _map_sepa_to_numeric(state.mood) of the service, for the string
\* the cleaner has mapped (CurrentState.mood and .fatigue are str)
ServingMapSepaToNumeric ==
    /\ pc = "mapped"
    /\ sepa_value.value.kind = "str"
    /\ serving_numeric' = map_sepa_to_numeric(sepa_value.value.s)
    /\ pc' = "mapped_twice"
    /\ UNCHANGED <<classifierVars, decoderVars, readinessVars, parserVars, calculatorVars,
                   forwardVars, vectorVars, serviceVars, sepa_value, sepa_numeric,
                   trainerVars>>

NextMappers ==
    \/ MapSepaToNumeric
    \/ ServingMapSepaToNumeric

SpecMappers == Init /\ [][NextMappers]_vars

\* C21: for every mood or fatigue string (a label in any case, with or
\* without surrounding blanks, a number 1-5 as text, an unmapped string) the
\* service's mapper returns the value the cleaner's mapper returns with the
\* table of that scale.
C21_MappersAgree ==
    pc = "mapped_twice" => serving_numeric = sepa_numeric

(***************************************************************************)
(* WorkoutQuality: V4ModelEvaluator._evaluate_workout_quality              *)
(*                                                                         *)
(* suitability_score and readiness_factor are in 1/1000, the weights of    *)
(* workout_params in 1/100 kg; the scores are exact fractions.             *)
(***************************************************************************)
frac_le(a, b) == ~frac_lt(b, a)

frac_abs(a) == IF a.n < 0 THEN frac_neg(a) ELSE a

\* expected_intensity
expected_intensity ==
    [goal \in {"strength", "hypertrophy", "endurance", "general_fitness"} |->
        CASE goal = "strength" -> Frac(90, 100)
          [] goal = "hypertrophy" -> Frac(75, 100)
          [] goal = "endurance" -> Frac(55, 100)
          [] goal = "general_fitness" -> Frac(68, 100)]

\* weights
quality_weights ==
    [suitability_alignment_score |-> Frac(30, 100),
     readiness_appropriateness_score |-> Frac(25, 100),
     goal_consistency_score |-> Frac(25, 100),
     parameter_reasonableness_score |-> Frac(20, 100)]

\* 1.0 if b else 0.0 (and the value of a bool in arithmetic)
score_of(b) == IF b THEN Frac(1, 1) ELSE Zero

\* Mutant: the plain mean of the four scores.
overall_score_unweighted(quality_metrics) ==
    frac_over(frac_add(frac_add(quality_metrics.suitability_alignment_score,
                                quality_metrics.readiness_appropriateness_score),
                       frac_add(quality_metrics.goal_consistency_score,
                                quality_metrics.parameter_reasonableness_score)),
              Frac(4, 1))

\* sum(quality_metrics[metric] * weight for metric, weight in weights.items())
overall_score(quality_metrics) ==
    frac_add(frac_add(frac_times(quality_metrics.suitability_alignment_score,
                                 quality_weights.suitability_alignment_score),
                      frac_times(quality_metrics.readiness_appropriateness_score,
                                 quality_weights.readiness_appropriateness_score)),
             frac_add(frac_times(quality_metrics.goal_consistency_score,
                                 quality_weights.goal_consistency_score),
                      frac_times(quality_metrics.parameter_reasonableness_score,
                                 quality_weights.parameter_reasonableness_score)))

\* the call raises: ZeroDivisionError of the two intensity ratios, KeyError
\* of expected_intensity[goal]
quality_raises(workout_params, goal, readiness_factor) ==
    \/ (readiness_factor > 1100 \/ readiness_factor < 900) /\ workout_params.predicted_1rm = 0
    \/ workout_params.adjusted_1rm = 0
    \/ goal \notin DOMAIN expected_intensity

\* _evaluate_workout_quality(workout_params, goal, suitability_score,
\* readiness_factor) when it does not raise
_evaluate_workout_quality(workout_params, goal, suitability_score, readiness_factor) ==
    LET target_range == workout_params.target_suitability_range
        recommended == workout_params.training_weight_kg.recommended
        suitability_aligned ==
            target_range[1] <= suitability_score /\ suitability_score <= target_range[2]
        readiness_appropriate ==
            IF readiness_factor > 1100
            THEN recommended * 10 >= 8 * workout_params.predicted_1rm
            ELSE IF readiness_factor < 900
            THEN recommended * 10 <= 7 * workout_params.predicted_1rm
            ELSE TRUE
        reps_reasonable ==
            3 <= workout_params.reps.recommended /\ workout_params.reps.recommended <= 30
        sets_reasonable ==
            1 <= workout_params.sets.recommended /\ workout_params.sets.recommended <= 6
        rest_reasonable ==
            50 <= workout_params.rest_minutes.recommended
            /\ workout_params.rest_minutes.recommended <= 500
    IN  the_value({
            the_value({
                [raised |-> FALSE,
                 suitability_score |-> suitability_score,
                 metrics |-> metrics,
                 overall_score |-> overall,
                 is_appropriate |-> frac_le(Frac(7, 10), overall)] :
                overall \in {overall_score(metrics)} }) :
            metrics \in {
                [suitability_alignment_score |-> score_of(suitability_aligned),
                 readiness_appropriateness_score |-> score_of(readiness_appropriate),
                 goal_consistency_score |->
                    the_value({ IF frac_lt(goal_consistency, Zero) THEN Zero
                                ELSE goal_consistency :
                                goal_consistency \in {
                                    frac_sub(Frac(1, 1),
                                        frac_abs(frac_sub(
                                            Frac(recommended, workout_params.adjusted_1rm),
                                            expected_intensity[goal])))} }),
                 parameter_reasonableness_score |->
                    score_of(reps_reasonable /\ sets_reasonable /\ rest_reasonable)]} })

\* the suitability predictions (1/1000): the ends of the target ranges and
\* their neighbours
SuitabilityPredictions == {0, 599, 600, 750, 950, 951, 1000}

\* workout_quality = self._evaluate_workout_quality(workout_params, goal,
\* suitability_pred, readiness_pred), for the prescription just decoded
EvaluateWorkoutQuality ==
    /\ pc = "decoded"
    /\ \E suitability_pred \in SuitabilityPredictions :
        quality' = IF quality_raises(workout, call.goal, call.readiness_factor)
                   THEN [raised |-> TRUE]
                   ELSE _evaluate_workout_quality(workout, call.goal, suitability_pred,
                                                  call.readiness_factor)
    /\ pc' = IF quality'.raised THEN "raised" ELSE "evaluated"
    /\ UNCHANGED <<call, workout, classifierVars, readinessVars, parserVars, calculatorVars,
                   forwardVars, vectorVars, serviceVars, mapperVars, trainerVars>>

NextQuality ==
    \/ DecodeIntensityToWorkout
    \/ EvaluateWorkoutQuality

SpecQuality == Init /\ [][NextQuality]_vars

C22_InUnit(x) == frac_le(Zero, x) /\ frac_le(x, Frac(1, 1))

\* C22: every sub-score is in [0, 1], overall_score is 0.3 * suitability
\* alignment + 0.25 * readiness appropriateness + 0.25 * goal consistency +
\* 0.2 * parameter reasonableness, so it is in [0, 1], and is_appropriate
\* is true exactly when overall_score >= 0.7.
C22_WeightedQuality ==
    pc = "evaluated" =>
        /\ \A name \in DOMAIN quality.metrics : C22_InUnit(quality.metrics[name])
        /\ \A name \in DOMAIN quality.metrics \ {"goal_consistency_score"} :
              quality.metrics[name] \in {Zero, Frac(1, 1)}
        /\ quality.overall_score =
              frac_add(Frac(30 * quality.metrics.suitability_alignment_score.n
                            + 25 * quality.metrics.readiness_appropriateness_score.n
                            + 20 * quality.metrics.parameter_reasonableness_score.n, 100),
                       frac_over(quality.metrics.goal_consistency_score, Frac(4, 1)))
        /\ C22_InUnit(quality.overall_score)
        /\ quality.is_appropriate <=> quality.overall_score.n * 10 >= 7 * quality.overall_score.d

\* C22 witness: a prescription with a graded goal consistency was found
\* appropriate at an overall score strictly between 0.7 and 1, and the
\* three 0/1 scores were 1.
C22_Witness ==
    /\ pc = "evaluated"
    /\ quality.is_appropriate
    /\ quality.metrics.suitability_alignment_score = Frac(1, 1)
    /\ quality.metrics.goal_consistency_score.d > 1
    /\ frac_lt(quality.overall_score, Frac(1, 1))


(***************************************************************************)
(* V4Dataset and V4ModelTrainer.prepare_datasets                           *)
(* (two_branch_model_v4.py), and the evaluation rows of                    *)
(* train_v4_complete.main.                                                 *)
(*                                                                         *)
(* A row is its position in trainer.data (id) and its bmi cell: a number,  *)
(* NaN or a text.  The other columns are finite numbers and are not held.  *)
(* An extracted array is held with the row it was extracted from.          *)
(***************************************************************************)
MaxRows == 10

NaN == Missing

\* float(row.get('bmi', ...)): of NaN it is nan, of a text it raises
float_raises(cell) == ~pd_isna(cell) /\ ~float_of(cell).ok

\* float(value) if pd.notna(value) else 0.0
float_if_notna(cell, default) == IF pd_isna(cell) THEN Number(default) ELSE cell

\* _extract_branch_a_features .. _extract_targets raise for this row
extraction_raises(row) == float_raises(row.bmi)

\* _extract_branch_a_features(row), its bmi entry
extract_branch_a_features(row) == [row |-> row.id, array |-> <<float_if_notna(row.bmi, 0)>>]

\* _extract_branch_b_features(row), its bmi entry
extract_branch_b_features(row) == [row |-> row.id, array |-> <<float_if_notna(row.bmi, 0)>>]

\* _extract_health_profile(row), its bmi entry: float(row.get('bmi', 23)) / 40
\* (nan / 40 is nan)
extract_health_profile(row) ==
    [row |-> row.id,
     array |-> <<IF pd_isna(row.bmi) THEN NaN ELSE Number(row.bmi.tenths \div 40)>>]

\* _calculate_exercise_intensity, _extract_exercise_info,
\* _extract_health_indicators, _extract_targets: columns other than bmi
extract_other(row) == [row |-> row.id, array |-> <<Number(5)>>]

\* np.isfinite of one entry
np_isfinite(v) == v.kind = "number"

\* _validate_sample(*arrays)
validate_sample(arrays) ==
    \A k \in 1..Len(arrays) : \A j \in 1..Len(arrays[k].array) : np_isfinite(arrays[k].array[j])

\* the seven extractions of one row, in the order of the for body
extract_all(row) ==
    <<extract_branch_a_features(row), extract_branch_b_features(row),
      extract_health_profile(row), extract_other(row), extract_other(row),
      extract_other(row), extract_other(row)>>

\* the seven appends
append_all(lists, arrays) ==
    [branch_a_features |-> Append(lists.branch_a_features, arrays[1]),
     branch_b_features |-> Append(lists.branch_b_features, arrays[2]),
     health_profiles |-> Append(lists.health_profiles, arrays[3]),
     exercise_intensities |-> Append(lists.exercise_intensities, arrays[4]),
     exercise_infos |-> Append(lists.exercise_infos, arrays[5]),
     health_indicators |-> Append(lists.health_indicators, arrays[6]),
     targets |-> Append(lists.targets, arrays[7])]

empty_lists ==
    [branch_a_features |-> <<>>, branch_b_features |-> <<>>, health_profiles |-> <<>>,
     exercise_intensities |-> <<>>, exercise_infos |-> <<>>, health_indicators |-> <<>>,
     targets |-> <<>>]

\* Mutant: the first row that raises ends the loop.
RECURSIVE preprocess_loop_aborting(_, _, _)
preprocess_loop_aborting(rows, i, lists) ==
    IF i > Len(rows) THEN lists
    ELSE IF extraction_raises(rows[i]) THEN lists
    ELSE IF validate_sample(extract_all(rows[i]))
    THEN preprocess_loop_aborting(rows, i + 1, append_all(lists, extract_all(rows[i])))
    ELSE preprocess_loop_aborting(rows, i + 1, lists)

\* for idx, row in self.data.iterrows(): try ... except Exception: continue
RECURSIVE preprocess_loop(_, _, _)
preprocess_loop(rows, i, lists) ==
    IF i > Len(rows) THEN lists
    ELSE IF extraction_raises(rows[i]) THEN preprocess_loop(rows, i + 1, lists)
    ELSE IF validate_sample(extract_all(rows[i]))
    THEN preprocess_loop(rows, i + 1, append_all(lists, extract_all(rows[i])))
    ELSE preprocess_loop(rows, i + 1, lists)

\* V4Dataset(data, ...): __init__ keeps the frame and preprocesses it
V4Dataset(rows) == [data |-> rows, built |-> TRUE, lists |-> preprocess_loop(rows, 1, empty_lists)]

\* len(dataset)
dataset_len(dataset) == Len(dataset.lists.branch_a_features)

\* A float test size: the fraction n/d it is next to, and whether the float
\* lies above it.  1 - 0.7 is 0.30000000000000004, 0.2 / (0.1 + 0.2) is
\* 0.6666666666666666.
test_size_of_first_split == [n |-> 3, d |-> 10, above |-> TRUE]

test_size_of_second_split == [n |-> 2, d |-> 3, above |-> FALSE]

\* train_test_split's n_test = ceil(test_size * n_samples)
n_test_of(test_size, n_samples) ==
    IF test_size.above THEN (test_size.n * n_samples) \div test_size.d + 1
    ELSE (test_size.n * n_samples + test_size.d - 1) \div test_size.d

\* the rows of a frame whose ids are in ids, in the frame's order
rows_in(rows, ids) == SelectSeq(rows, LAMBDA r : r.id \in ids)

ids_of(rows) == {rows[k].id : k \in 1..Len(rows)}

\* train_test_split(frame, test_size=..., random_state=...): the shuffled
\* index sets it can cut; it raises ValueError when the train set is empty
test_id_sets(rows, test_size) ==
    {ids \in SUBSET ids_of(rows) : Cardinality(ids) = n_test_of(test_size, Len(rows))}

split_raises(rows, test_size) == Len(rows) - n_test_of(test_size, Len(rows)) <= 0

\* the row frames load_and_prepare_data can leave in trainer.data: at most
\* one row whose bmi is NaN or a text
Frames ==
    {[i \in 1..n |-> [id |-> i, bmi |-> IF i = bad THEN cell ELSE Number(230)]] :
        n \in 1..MaxRows, bad \in 0..MaxRows, cell \in {NaN, Str("abc")}}

\* trainer.load_and_prepare_data(...)
LoadAndPrepareData ==
    /\ pc = "start"
    /\ \E frame \in Frames : data' = frame
    /\ pc' = "data_loaded"
    /\ UNCHANGED <<classifierVars, decoderVars, readinessVars, parserVars, calculatorVars,
                   forwardVars, vectorVars, serviceVars, mapperVars, train_dataset,
                   val_dataset, test_dataset, test_data_for_eval, training, cleaned>>

\* trainer.prepare_datasets(train_ratio=0.7, val_ratio=0.1, test_ratio=0.2)
PrepareDatasets ==
    /\ pc = "data_loaded"
    /\ IF split_raises(data, test_size_of_first_split)
       THEN /\ pc' = "raised"
            /\ UNCHANGED <<train_dataset, val_dataset, test_dataset>>
       ELSE \E temp_ids \in test_id_sets(data, test_size_of_first_split) :
              LET train_data == rows_in(data, ids_of(data) \ temp_ids)
                  temp_data == rows_in(data, temp_ids)
              IN  IF split_raises(temp_data, test_size_of_second_split)
                  THEN /\ pc' = "raised"
                       /\ UNCHANGED <<train_dataset, val_dataset, test_dataset>>
                  ELSE \E test_ids \in test_id_sets(temp_data, test_size_of_second_split) :
                         /\ train_dataset' = V4Dataset(train_data)
                         /\ val_dataset' = V4Dataset(rows_in(temp_data, temp_ids \ test_ids))
                         /\ test_dataset' = V4Dataset(rows_in(temp_data, test_ids))
                         /\ pc' = "prepared"
    /\ UNCHANGED <<classifierVars, decoderVars, readinessVars, parserVars, calculatorVars,
                   forwardVars, vectorVars, serviceVars, mapperVars, data,
                   test_data_for_eval, training, cleaned>>

\* data.iloc[start:stop]
iloc(rows, start, stop) ==
    IF start >= stop \/ start >= Len(rows) THEN <<>>
    ELSE SubSeq(rows, start + 1, IF stop > Len(rows) THEN Len(rows) ELSE stop)

\* train_v4_complete.main, "Load test data": the rows it evaluates on
PrepareEvaluationRows ==
    /\ pc = "prepared"
    /\ LET tail == iloc(data, dataset_len(train_dataset) + dataset_len(val_dataset), Len(data))
       IN  test_data_for_eval' =
             IF Len(tail) = 0
             THEN iloc(data, dataset_len(train_dataset),
                       dataset_len(train_dataset) + dataset_len(val_dataset))
             ELSE tail
    /\ pc' = "evaluation_rows"
    /\ UNCHANGED <<classifierVars, decoderVars, readinessVars, parserVars, calculatorVars,
                   forwardVars, vectorVars, serviceVars, mapperVars, data, train_dataset,
                   val_dataset, test_dataset, training, cleaned>>

NextTrainer == \/ LoadAndPrepareData \/ PrepareDatasets \/ PrepareEvaluationRows

SpecTrainer == Init /\ [][NextTrainer]_vars

C23_Built == pc \in {"prepared", "evaluation_rows"}

\* the rows a dataset holds
C23_Rows(dataset) == {dataset.lists.branch_a_features[k].row : k \in 1..dataset_len(dataset)}

\* a row V4Dataset keeps
C23_Valid(row) == ~extraction_raises(row) /\ validate_sample(extract_all(row))

\* |100 * size - percent * total| <= 2 * total
C23_Within2Points(size, percent, total) ==
    /\ 100 * size - percent * total <= 2 * total
    /\ percent * total - 100 * size <= 2 * total

\* C23: after prepare_datasets(0.7, 0.1, 0.2) the train, validation and test
\* sets are pairwise disjoint, every valid row of trainer.data is in exactly
\* one of them, and their sizes are 70%, 10% and 20% of the total, each
\* within 2 percentage points.
C23_SplitIs70_10_20 ==
    C23_Built =>
        /\ C23_Rows(train_dataset) \cap C23_Rows(val_dataset) = {}
        /\ C23_Rows(train_dataset) \cap C23_Rows(test_dataset) = {}
        /\ C23_Rows(val_dataset) \cap C23_Rows(test_dataset) = {}
        /\ \A k \in 1..Len(data) :
             C23_Valid(data[k]) =>
                 data[k].id \in C23_Rows(train_dataset) \cup C23_Rows(val_dataset)
                                 \cup C23_Rows(test_dataset)
        /\ C23_Within2Points(dataset_len(train_dataset), 70, Len(data))
        /\ C23_Within2Points(dataset_len(val_dataset), 10, Len(data))
        /\ C23_Within2Points(dataset_len(test_dataset), 20, Len(data))

C26_Lists(dataset) ==
    <<dataset.lists.branch_a_features, dataset.lists.branch_b_features,
      dataset.lists.health_profiles, dataset.lists.exercise_intensities,
      dataset.lists.exercise_infos, dataset.lists.health_indicators, dataset.lists.targets>>

\* the valid rows of a frame, in order
C26_ValidRows(rows) == SelectSeq(rows, C23_Valid)

C26_Atomic(dataset) ==
    LET kept == C26_ValidRows(dataset.data)
    IN  \A l \in 1..7 :
          /\ Len(C26_Lists(dataset)[l]) = Len(kept)
          /\ \A k \in 1..Len(kept) : C26_Lists(dataset)[l][k] = extract_all(kept[k])[l]

\* C26: _preprocess_data handles each row atomically and never aborts: a row
\* that raises during extraction or fails _validate_sample is in none of the
\* seven lists, the rows after it are still processed, and the seven lists
\* have the same length and hold at each index the arrays of the same row.
C26_RowsAreAtomic ==
    C23_Built =>
        /\ C26_Atomic(train_dataset)
        /\ C26_Atomic(val_dataset)
        /\ C26_Atomic(test_dataset)

\* a training set whose frame has a row that raises followed by a row that
\* was kept
C26_Witness ==
    /\ C23_Built
    /\ \E k \in 1..Len(train_dataset.data) :
         /\ extraction_raises(train_dataset.data[k])
         /\ k < Len(train_dataset.data)
         /\ train_dataset.data[k + 1].id \in C23_Rows(train_dataset)

\* C27: the rows train_v4_complete.main evaluates on are held out: none of
\* them is a row of the training split of prepare_datasets, and they are
\* exactly the rows of its test split.
C27_EvaluatesOnTestSplit ==
    pc = "evaluation_rows" =>
        /\ ids_of(test_data_for_eval) \cap ids_of(train_dataset.data) = {}
        /\ ids_of(test_data_for_eval) = ids_of(test_dataset.data)


(***************************************************************************)
(* V4DataCleaner.calculate_intensity_coefficients and                      *)
(* _validate_intensity_coefficients (data_cleaning_v4.py), on the row      *)
(* whose workout string was parsed.  The stored columns are exact          *)
(* fractions; tempo_factor (drawn at random) and metabolic_stress are not  *)
(* held.                                                                   *)
(***************************************************************************)
INTENSITY_RANGES ==
    [resistance_intensity |-> <<Frac(1, 10), Frac(2, 1)>>,
     cardio_intensity |-> <<Frac(0, 1), Frac(3, 2)>>,
     volume_load |-> <<Frac(0, 1), Frac(1, 1)>>,
     rest_density |-> <<Frac(0, 1), Frac(1, 1)>>]

\* data[col] = 0.0 for the columns the frame does not have yet
initial_columns ==
    [resistance_intensity |-> Frac(0, 1), cardio_intensity |-> Frac(0, 1),
     volume_load |-> Frac(0, 1), rest_density |-> Frac(0, 1)]

\* the five totals before the loop over parsed_exercises
zero_row_totals ==
    [total_volume |-> Frac(0, 1), total_resistance_intensity |-> Frac(0, 1),
     total_cardio_intensity |-> Frac(0, 1), total_rest_time |-> Frac(0, 1),
     total_exercise_time |-> Frac(0, 1)]

\* min(a, b) of Python: a unless b is smaller
py_min(a, b) == IF frac_lt(b, a) THEN b ELSE a

\* max(a, b) of Python: a unless b is larger
py_max(a, b) == IF frac_lt(a, b) THEN b ELSE a

\* the body of `for exercise in parsed_exercises` (reps, weight, sets in 1/10)
row_accumulate(reps, weight, sets, estimated_1rm, t) ==
    IF reps <= 0 \/ weight <= 0 \/ sets <= 0 THEN t
    ELSE the_value({
        [total_resistance_intensity |->
             frac_add(t.total_resistance_intensity, frac_mul(resistance_int, s)),
         total_volume |-> frac_add(t.total_volume, Frac(weight * reps * sets, 1000)),
         total_cardio_intensity |-> frac_add(t.total_cardio_intensity, frac_mul(cardio_int, s)),
         total_exercise_time |-> frac_add(t.total_exercise_time, Frac(reps * sets * 4, 100)),
         total_rest_time |-> frac_add(t.total_rest_time, Frac(sets * 120, 10))] :
        resistance_int \in
            {frac_div(Frac(weight * reps, 100),
                      frac_mul(IF estimated_1rm <= 0 THEN Frac(weight * 15, 100)
                               ELSE Frac(estimated_1rm, 10), Frac(10, 1)))},
        cardio_int \in
            {frac_mul(Frac(reps, 300), frac_div(Frac(1, 1), py_max(Frac(1, 1), Frac(sets, 10))))},
        s \in {Frac(sets, 10)} })

RECURSIVE row_loop(_, _, _, _)
row_loop(parsed_exercises, i, estimated_1rm, t) ==
    IF i > Len(parsed_exercises) THEN t
    ELSE the_value({
        row_loop(parsed_exercises, i + 1, estimated_1rm, next) :
        next \in {row_accumulate(parsed_exercises[i][1], parsed_exercises[i][2],
                                 parsed_exercises[i][3], estimated_1rm, t)} })

\* "Update intensity coefficients for this row"
row_columns(t, parsed_exercises) ==
    the_value({
        [resistance_intensity |->
             IF t.total_volume.n > 0
             THEN py_min(Frac(2, 1), frac_div(t.total_resistance_intensity, count))
             ELSE initial_columns.resistance_intensity,
         cardio_intensity |->
             IF t.total_volume.n > 0
             THEN py_min(Frac(3, 2), frac_div(t.total_cardio_intensity, count))
             ELSE initial_columns.cardio_intensity,
         volume_load |->
             IF t.total_volume.n > 0
             THEN py_min(Frac(1, 1), frac_div(t.total_volume, Frac(10000, 1)))
             ELSE initial_columns.volume_load,
         rest_density |->
             IF t.total_exercise_time.n > 0
             THEN frac_div(t.total_rest_time,
                           the_value({frac_add(t.total_exercise_time, t.total_rest_time)}))
             ELSE initial_columns.rest_density] :
        count \in {Frac(IF Len(parsed_exercises) > 1 THEN Len(parsed_exercises) ELSE 1, 1)} })

\* _validate_intensity_coefficients: np.clip of each column to its range
validate_intensity_coefficients(columns) ==
    [col \in DOMAIN columns |->
        np_clip_frac(columns[col], INTENSITY_RANGES[col][1], INTENSITY_RANGES[col][2])]

\* calculate_intensity_coefficients on one row: its columns after the
\* validation step
calculate_intensity_coefficients(workout_str, parsed_exercises, estimated_1rm) ==
    validate_intensity_coefficients(
        IF workout_str = "" \/ parsed_exercises = <<>> THEN initial_columns
        ELSE the_value({
            row_columns(t, parsed_exercises) :
            t \in {row_loop(parsed_exercises, 1, estimated_1rm, zero_row_totals)} }))

\* the cleaner's pass over the row whose string ParseWorkoutData parsed;
\* its estimated_1rm is the user_1rm that V4Dataset hands to
\* process_exercise_data for the same row
CalculateIntensityCoefficients ==
    /\ pc = "processed"
    /\ cleaned' = [stored |-> TRUE,
                   columns |-> calculate_intensity_coefficients(workout_data, exercises,
                                                                user.user_1rm)]
    /\ pc' = "cleaned"
    /\ UNCHANGED <<classifierVars, decoderVars, readinessVars, parserVars, calculatorVars,
                   forwardVars, vectorVars, serviceVars, mapperVars, data, train_dataset,
                   val_dataset, test_dataset, test_data_for_eval, training>>

NextCoefficients ==
    \/ ParseWorkoutData
    \/ ProcessExerciseData
    \/ CalculateIntensityCoefficients

SpecCoefficients == Init /\ [][NextCoefficients]_vars

\* C28: for every workout string and every estimated 1RM > 0 the cleaner
\* stores, after its validation step, the resistance_intensity,
\* cardio_intensity, volume_load and rest_density that process_exercise_data
\* returns for that string.
C28_ImplementationsAgree ==
    (pc = "cleaned" /\ user.user_1rm > 0) =>
        /\ cleaned.columns.resistance_intensity = coefficients.resistance_intensity
        /\ cleaned.columns.cardio_intensity = coefficients.cardio_intensity
        /\ cleaned.columns.volume_load = coefficients.volume_load
        /\ cleaned.columns.rest_density = coefficients.rest_density


(***************************************************************************)
(* V4ModelTrainer.train_model: early stopping and the best checkpoint.     *)
(*                                                                         *)
(* A validation loss is a number or inf (a float32 MSE that overflowed;    *)
(* predictions with NaN make _validate_model raise); best_val_loss starts  *)
(* at float('inf').  The state_dict of the model is named by the run and   *)
(* the epoch that produced it; best_v4_model.pt holds a state_dict, or is  *)
(* absent.  val_losses is held as the set of its values.                   *)
(***************************************************************************)
MaxEpochs == 32

Inf == [kind |-> "inf"]

\* a < b on floats
float_lt(a, b) ==
    /\ a.kind = "number"
    /\ \/ b.kind = "inf"
       \/ b.kind = "number" /\ a.tenths < b.tenths

\* the validation losses _validate_model can return
ValidationLosses == {Number(1), Number(2), Number(3), Inf}

\* artifacts_dir / 'best_v4_model.pt' before the run: absent, or left by an
\* earlier run
NoFile == [run |-> "none", epoch |-> 0]

CheckpointFiles == {NoFile, [run |-> "earlier", epoch |-> 7]}

\* the values of the epochs argument
EpochArguments == {0, 1, 3, MaxEpochs}

\* train_model up to the for loop
StartTraining ==
    /\ pc = "start"
    /\ \E epochs \in EpochArguments, file \in CheckpointFiles :
        training' = [epochs |-> epochs, epoch |-> 0, val_losses |-> {},
                     improved_at |-> 0,
                     best_val_loss |-> Inf, patience_counter |-> 0,
                     state_dict |-> [run |-> "this", epoch |-> 0],
                     best_v4_model |-> file, restored |-> FALSE]
    /\ pc' = IF training'.epochs = 0 THEN "loop_ended" ELSE "training"
    /\ UNCHANGED <<classifierVars, decoderVars, readinessVars, parserVars, calculatorVars,
                   forwardVars, vectorVars, serviceVars, mapperVars, data, train_dataset,
                   val_dataset, test_dataset, test_data_for_eval, cleaned>>

\* "Early stopping": if val_loss < best_val_loss: ... torch.save(...) else:
\* patience_counter += 1
early_stopping(t, val_loss) ==
    IF float_lt(val_loss, t.best_val_loss)
    THEN [t EXCEPT !.best_val_loss = val_loss,
                   !.patience_counter = 0,
                   !.best_v4_model = t.state_dict]
    ELSE [t EXCEPT !.patience_counter = t.patience_counter + 1]

EarlyStoppingPatience == 30

\* val_loss improves strictly on every loss of the epochs before
strictly_improves(val_loss, val_losses) ==
    /\ val_loss.kind = "number"
    /\ \A v \in val_losses : v.kind = "number" => val_loss.tenths < v.tenths

\* one pass of `for epoch in range(epochs)`: the training phase changes the
\* weights, the validation phase gives val_loss
TrainEpoch ==
    /\ pc = "training"
    /\ \E val_loss \in ValidationLosses :
        LET trained == [training EXCEPT
                            !.epoch = training.epoch + 1,
                            !.state_dict = [run |-> "this", epoch |-> training.epoch + 1],
                            !.val_losses = training.val_losses \cup {val_loss},
                            !.improved_at =
                                IF strictly_improves(val_loss, training.val_losses)
                                THEN training.epoch + 1 ELSE training.improved_at]
            t == early_stopping(trained, val_loss)
        IN  /\ training' = t
            /\ pc' = IF t.patience_counter >= EarlyStoppingPatience \/ t.epoch = t.epochs
                     THEN "loop_ended" ELSE "training"
    /\ UNCHANGED <<classifierVars, decoderVars, readinessVars, parserVars, calculatorVars,
                   forwardVars, vectorVars, serviceVars, mapperVars, data, train_dataset,
                   val_dataset, test_dataset, test_data_for_eval, cleaned>>

\* self.model.load_state_dict(torch.load(artifacts_dir / 'best_v4_model.pt'))
\* (FileNotFoundError when the file is absent) and the training history
\* ('total_epochs': epoch + 1 raises UnboundLocalError when the loop never ran)
LoadBestModel ==
    /\ pc = "loop_ended"
    /\ IF training.best_v4_model = NoFile
       THEN pc' = "raised" /\ UNCHANGED training
       ELSE /\ training' = [training EXCEPT !.state_dict = training.best_v4_model,
                                            !.restored = TRUE]
            /\ pc' = IF training.epochs = 0 THEN "raised" ELSE "returned"
    /\ UNCHANGED <<classifierVars, decoderVars, readinessVars, parserVars, calculatorVars,
                   forwardVars, vectorVars, serviceVars, mapperVars, data, train_dataset,
                   val_dataset, test_dataset, test_data_for_eval, cleaned>>

NextTraining == \/ StartTraining \/ TrainEpoch \/ LoadBestModel

SpecTraining == Init /\ [][NextTraining]_vars

\* C30: in train_model, for any sequence of validation losses,
\* best_val_loss is the minimum loss seen so far, patience_counter is the
\* number of epochs since the last strict improvement, the loop ends at the
\* first epoch where patience_counter reaches 30 or after `epochs` epochs,
\* and the weights restored at the end are those of a checkpoint written
\* during this run at the epoch that achieved best_val_loss.
C30_EarlyStoppingKeepsTheBest ==
    /\ (pc \in {"training", "loop_ended", "returned"} /\ training.epoch > 0) =>
        /\ training.best_val_loss \in training.val_losses
        /\ \A v \in training.val_losses : ~float_lt(v, training.best_val_loss)
        /\ training.patience_counter = training.epoch - training.improved_at
    /\ pc = "training" =>
        /\ training.patience_counter < EarlyStoppingPatience
        /\ training.epoch < training.epochs
    /\ pc = "loop_ended" =>
        \/ training.patience_counter = EarlyStoppingPatience
        \/ training.epoch = training.epochs
    /\ (pc \in {"returned", "raised"} /\ training.restored) =>
        /\ training.state_dict.run = "this"
        /\ training.improved_at > 0
        /\ training.state_dict.epoch = training.improved_at

==========================================================================
